---- MODULE Spec2Model ----
(***************************************************************************)
(* Category classifier (SodreScraperCategorizado._categorize_item) and     *)
(* record normaliser (UniversalNormalizer) of scraper-sodre.               *)
(*                                                                         *)
(* A Python str is a sequence of one-character strings.  A Python value    *)
(* is a record [t, s, n]: t is the type name, s the text (the value of a   *)
(* str, the str() of any other object), n the number of an int, a float in *)
(* thousandths and the length of a container, d the items of a dict.  A    *)
(* call that raises returns Raised(exception).                             *)
(***************************************************************************)
EXTENDS Integers, Sequences, FiniteSets, TLC

VARIABLES
    call,   \* the call: [fn |-> name of the function, arg |-> its argument]
    pc,     \* "call" before the function has run, "return" after
    ret,    \* what the call returned (None until it returns)
    stats,  \* self.stats of the scraper instance
    local   \* per-thread registers of the concurrent invocations (none in Spec)

vars == <<call, pc, ret, stats, local>>

(***************************************************************************)
(* Bounds of the explored inputs.                                          *)
(***************************************************************************)
MaxPad == 1

MaxWords == 3

(***************************************************************************)
(* Python values.                                                          *)
(***************************************************************************)
NoItems == <<>>

None == [t |-> "None", s |-> <<"N","o","n","e">>, n |-> 0, d |-> NoItems]

VStr(s) == [t |-> "str", s |-> s, n |-> 0, d |-> NoItems]

DigitChars == <<"0","1","2","3","4","5","6","7","8","9">>

RECURSIVE DigitsOf(_)
DigitsOf(n) ==
    IF n < 10 THEN <<DigitChars[n + 1]>>
    ELSE DigitsOf(n \div 10) \o <<DigitChars[(n % 10) + 1]>>

VInt(n) ==
    [t |-> "int", s |-> IF n < 0 THEN <<"-">> \o DigitsOf(-n) ELSE DigitsOf(n), n |-> n, d |-> NoItems]

\* a list whose str() is s and whose len() is n
VList(s, n) == [t |-> "list", s |-> s, n |-> n, d |-> NoItems]

\* a dict whose str() is s and whose items are the mapping d
VDict(s, d) == [t |-> "dict", s |-> s, n |-> Cardinality(DOMAIN d), d |-> d]

\* the exception a call raised
Raised(exc) == [t |-> "raised", s |-> exc, n |-> 0, d |-> NoItems]

\* bool(v)
Truthy(v) ==
    CASE v.t = "None" -> FALSE
      [] v.t = "str"  -> v.s # <<>>
      [] v.t \in {"int", "float"} -> v.n # 0 \/ v.s \in {<<"n","a","n">>, <<"i","n","f">>, <<"-","i","n","f">>}
      [] OTHER        -> v.n > 0

\* str(v)
PyStr(v) == v.s

(***************************************************************************)
(* Characters and the str methods the code uses.                           *)
(***************************************************************************)
UpperLetters == <<"A","B","C","D","E","F","G","H","I","J","K","L","M","N","O","P","Q","R","S","T","U","V","W","X","Y","Z","Á","À","Â","Ã","Ä","É","È","Ê","Ë","Í","Ì","Î","Ï","Ó","Ò","Ô","Õ","Ö","Ú","Ù","Û","Ü","Ç","Ñ">>

LowerLetters == <<"a","b","c","d","e","f","g","h","i","j","k","l","m","n","o","p","q","r","s","t","u","v","w","x","y","z","á","à","â","ã","ä","é","è","ê","ë","í","ì","î","ï","ó","ò","ô","õ","ö","ú","ù","û","ü","ç","ñ">>

UpperSet == {UpperLetters[i] : i \in 1..Len(UpperLetters)}

\* the ordinal indicators are lower-case letters without an upper-case form
LowerSet == {LowerLetters[i] : i \in 1..Len(LowerLetters)} \cup {"ª", "º"}

DigitSet == {"0", "1", "2", "3", "4", "5", "6", "7", "8", "9"}

Whitespace == {" ", "\n", "\t"}

IsSpace(c) == c \in Whitespace

IsDigit(c) == c \in DigitSet

\* \w of a str pattern
IsWord(c) == c \in UpperSet \cup LowerSet \cup DigitSet \cup {"_"}

LowerCh(c) ==
    IF c \in UpperSet
    THEN LowerLetters[CHOOSE i \in 1..Len(UpperLetters) : UpperLetters[i] = c]
    ELSE c

UpperCh(c) ==
    IF \E i \in 1..Len(LowerLetters) : LowerLetters[i] = c
    THEN UpperLetters[CHOOSE i \in 1..Len(LowerLetters) : LowerLetters[i] = c]
    ELSE c

\* str.lower()
Lower(s) == [i \in 1..Len(s) |-> LowerCh(s[i])]

\* str.upper()
Upper(s) == [i \in 1..Len(s) |-> UpperCh(s[i])]

\* str.capitalize()
Capitalize(s) == [i \in 1..Len(s) |-> IF i = 1 THEN UpperCh(s[i]) ELSE LowerCh(s[i])]

\* str.isupper()
IsUpper(s) ==
    /\ \E i \in 1..Len(s) : s[i] \in UpperSet
    /\ \A i \in 1..Len(s) : s[i] \notin LowerSet

\* str.isdigit()
IsDigitStr(s) == s # <<>> /\ \A i \in 1..Len(s) : IsDigit(s[i])

SetMin(S) == CHOOSE x \in S : \A y \in S : x <= y

SetMax(S) == CHOOSE x \in S : \A y \in S : x >= y

\* str.strip()
Strip(s) ==
    LET kept == {i \in 1..Len(s) : ~IsSpace(s[i])}
    IN  IF kept = {} THEN <<>> ELSE SubSeq(s, SetMin(kept), SetMax(kept))

\* s[i:i+len(sub)] == sub
MatchAt(sub, s, i) ==
    /\ i >= 1
    /\ i + Len(sub) - 1 <= Len(s)
    /\ \A j \in 1..Len(sub) : s[i + j - 1] = sub[j]

\* sub in s
In(sub, s) == \E i \in 1..(Len(s) - Len(sub) + 1) : MatchAt(sub, s, i)

\* ' ' * n
Spaces(n) == [i \in 1..n |-> " "]

\* the starts of the maximal runs of non-whitespace characters
WordStarts(s) == {i \in 1..Len(s) : ~IsSpace(s[i]) /\ (i = 1 \/ IsSpace(s[i - 1]))}

\* the last character of the run that starts at i
WordEnd(s, i) == SetMin({j \in i..Len(s) : j = Len(s) \/ IsSpace(s[j + 1])})

\* the elements of a set of numbers in increasing order
SortedSeq(S) ==
    [k \in 1..Cardinality(S) |-> CHOOSE i \in S : Cardinality({j \in S : j < i}) = k - 1]

\* str.split()
Split(s) ==
    LET starts == SortedSeq(WordStarts(s))
    IN  [k \in 1..Len(starts) |-> SubSeq(s, starts[k], WordEnd(s, starts[k]))]

\* sep.join(words[lo..hi])
RECURSIVE JoinRange(_, _, _, _)
JoinRange(sep, words, lo, hi) ==
    IF lo > hi THEN <<>>
    ELSE IF lo = hi THEN words[lo]
    ELSE JoinRange(sep, words, lo, (lo + hi) \div 2)
         \o sep \o JoinRange(sep, words, ((lo + hi) \div 2) + 1, hi)

\* sep.join(words)
Join(sep, words) == JoinRange(sep, words, 1, Len(words))

\* s[i - 1] of Python, or "" past either end of the text
At(s, i) == IF i \in 1..Len(s) THEN s[i] ELSE ""

\* the first position from i on whose character does not satisfy P: where a
\* greedy P* that starts at i stops
SkipWhile(P(_), s, i) == SetMin({j \in i..(Len(s) + 1) : j = Len(s) + 1 \/ ~P(s[j])})

\* MatchAt under re.IGNORECASE
MatchAtI(sub, s, i) ==
    /\ i >= 1
    /\ i + Len(sub) - 1 <= Len(s)
    /\ \A j \in 1..Len(sub) : LowerCh(s[i + j - 1]) = LowerCh(sub[j])

\* re.sub(pattern, repl, s) over the start positions lo..hi-1, scanning from
\* lo: M(s, j) is the position after the match of the pattern that starts at
\* j, or 0 when there is none.  Matches are taken leftmost first and do not
\* overlap: the scan resumes where a match ended, which is the position
\* returned as next.  The range is halved so that long texts stay shallow.
RECURSIVE ReSubRange(_, _, _, _, _)
ReSubRange(M(_, _), repl, s, lo, hi) ==
    IF lo >= hi THEN [out |-> <<>>, next |-> lo]
    ELSE IF hi = lo + 1
    THEN IF M(s, lo) > lo
         THEN [out |-> repl, next |-> M(s, lo)]
         ELSE [out |-> <<s[lo]>>, next |-> lo + 1]
    ELSE LET left  == ReSubRange(M, repl, s, lo, (lo + hi) \div 2)
             right == ReSubRange(M, repl, s, left.next, hi)
         IN  [out |-> left.out \o right.out, next |-> right.next]

ReSub(M(_, _), repl, s) == ReSubRange(M, repl, s, 1, Len(s) + 1).out

\* str.replace(old, new)
Replace(old, new, s) ==
    ReSub(LAMBDA t, i : IF MatchAt(old, t, i) THEN i + Len(old) ELSE 0, new, s)

\* str.rstrip(chars)
RStrip(chars, s) ==
    LET kept == {i \in 1..Len(s) : s[i] \notin chars}
    IN  IF kept = {} THEN <<>> ELSE SubSeq(s, 1, SetMax(kept))

AsciiLetters == {UpperLetters[i] : i \in 1..26} \cup {LowerLetters[i] : i \in 1..26}

\* MatchAtI as the end of the match for ReSub
LitEndI(sub, s, i) == IF MatchAtI(sub, s, i) THEN i + Len(sub) ELSE 0

\* str.split(sep) for a one-character sep: the pieces between the separators
SplitOn(sep, s) ==
    LET cuts == SortedSeq({0} \cup {i \in 1..Len(s) : s[i] = sep} \cup {Len(s) + 1})
    IN  [k \in 1..(Len(cuts) - 1) |-> SubSeq(s, cuts[k] + 1, cuts[k + 1] - 1)]

\* s[:n]
Prefix(s, n) == IF Len(s) > n THEN SubSeq(s, 1, n) ELSE s

\* dict.get(key, default)
Get(item, key, default) == IF key \in DOMAIN item THEN item[key] ELSE default

(***************************************************************************)
(* SodreScraperCategorizado.category_mapping: the dict as the sequence of  *)
(* its (key, value) items.                                                 *)
(***************************************************************************)
category_mapping ==
    <<
       <<<<"a","p","a","r","t","a","m","e","n","t","o">>, "Imóveis">>,
       <<<<"c","a","s","a">>, "Imóveis">>,
       <<<<"c","a","s","a"," ","/"," ","c","o","n","s","t","r","u","ç","ã","o">>, "Imóveis">>,
       <<<<"c","o","m","p","l","e","x","o"," ","i","n","d","u","s","t","r","i","a","l">>, "Imóveis">>,
       <<<<"c","o","m","p","l","e","x","o"," ","r","e","s","i","d","e","n","c","i","a","l"," ","e"," ","d","e"," ","l","a","z","e","r">>, "Imóveis">>,
       <<<<"d","i","r","e","i","t","o","s"," ","s","o","b","r","e"," ","a","p","a","r","t","a","m","e","n","t","o">>, "Imóveis">>,
       <<<<"d","i","r","e","i","t","o","s"," ","s","o","b","r","e"," ","i","m","ó","v","e","l"," ","r","e","s","i","d","e","n","c","i","a","l">>, "Imóveis">>,
       <<<<"d","i","r","e","i","t","o","s"," ","s","o","b","r","e"," ","t","e","r","r","e","n","o">>, "Imóveis">>,
       <<<<"g","a","l","p","ã","o"," ","i","n","d","u","s","t","r","i","a","l">>, "Imóveis">>,
       <<<<"g","a","l","p","õ","e","s"," ","c","o","m","e","r","c","i","a","i","s"," ","e"," ","r","e","s","i","d","ê","n","c","i","a">>, "Imóveis">>,
       <<<<"g","l","e","b","a"," ","d","e"," ","t","e","r","r","a">>, "Imóveis">>,
       <<<<"i","m","ó","v","e","l"," ","c","o","m","e","r","c","i","a","l"," ","e"," ","r","e","s","i","d","e","n","c","i","a","l">>, "Imóveis">>,
       <<<<"i","m","ó","v","e","l"," ","r","e","s","i","d","e","n","c","i","a","l">>, "Imóveis">>,
       <<<<"i","m","ó","v","e","l"," ","r","e","s","i","d","e","n","c","i","a","l"," ","c","o","m"," ","3"," ","e","d","i","f","i","c","a","ç","õ","e","s">>, "Imóveis">>,
       <<<<"i","m","ó","v","e","l"," ","r","e","s","i","d","e","n","c","i","a","l"," ","t","i","p","o"," ","s","o","b","r","a","d","o">>, "Imóveis">>,
       <<<<"l","o","t","e"," ","d","e"," ","t","e","r","r","e","n","o">>, "Imóveis">>,
       <<<<"p","a","r","t","e"," ","i","d","e","a","l"," ","d","e"," ","1","/","6"," ","s","o","b","r","e"," ","i","m","ó","v","e","l"," ","r","e","s","i","d","e","n","c","i","a","l">>, "Imóveis">>,
       <<<<"p","a","r","t","e"," ","i","d","e","a","l"," ","d","e"," ","5","0","%"," ","s","o","b","r","e"," ","l","o","t","e"," ","d","e"," ","t","e","r","r","e","n","o">>, "Imóveis">>,
       <<<<"p","a","r","t","e"," ","i","d","e","a","l"," ","d","e"," ","5","0","%"," ","s","o","b","r","e"," ","n","u","a","-","p","r","o","p","r","i","e","d","a","d","e">>, "Imóveis">>,
       <<<<"t","e","r","r","e","n","o">>, "Imóveis">>,
       <<<<"t","e","r","r","e","n","o"," ","u","r","b","a","n","o">>, "Imóveis">>,
       <<<<"á","r","e","a"," ","d","e"," ","t","e","r","r","a","s">>, "Imóveis">>,
       <<<<"c","a","m","i","n","h","õ","e","s">>, "Veículos">>,
       <<<<"c","a","r","r","o","s">>, "Veículos">>,
       <<<<"e","m","b","a","r","c","a","ç","õ","e","s">>, "Veículos">>,
       <<<<"m","o","t","o","s">>, "Veículos">>,
       <<<<"o","n","i","b","u","s">>, "Veículos">>,
       <<<<"p","e","r","u","a","s">>, "Veículos">>,
       <<<<"u","t","i","l","i","t","."," ","p","e","s","a","d","o","s">>, "Veículos">>,
       <<<<"u","t","i","l","i","t","a","r","i","o","s"," ","l","e","v","e","s">>, "Veículos">>,
       <<<<"v","a","n"," ","l","e","v","e">>, "Veículos">>,
       <<<<"v","e","í","c","u","l","o","s">>, "Veículos">>,
       <<<<"b","i","c","i","c","l","e","t","a">>, "Veículos">>,
       <<<<"c","o","m","p","r","e","s","s","o","r","e","s"," ","d","e"," ","a","r">>, "Máquinas & Equipamentos">>,
       <<<<"e","m","p","i","l","h","a","d","e","i","r","a","s">>, "Máquinas & Equipamentos">>,
       <<<<"e","q","u","i","p","."," ","e"," ","m","a","t","."," ","i","n","d","u","s","t","r","i","a","i","s">>, "Máquinas & Equipamentos">>,
       <<<<"g","e","r","a","d","o","r","e","s">>, "Máquinas & Equipamentos">>,
       <<<<"i","m","p","l","e","m","e","n","t","o","s"," ","a","g","r","í","c","o","l","a","s">>, "Máquinas & Equipamentos">>,
       <<<<"i","m","p","l","e","m","e","n","t","o","s"," ","r","o","d",".">>, "Máquinas & Equipamentos">>,
       <<<<"t","e","r","r","a","p","l","e","n","a","g","e","m">>, "Máquinas & Equipamentos">>,
       <<<<"t","r","a","t","o","r","e","s">>, "Máquinas & Equipamentos">>,
       <<<<"e","l","e","t","r","i","c","o","s">>, "Tecnologia">>,
       <<<<"i","n","f","o","r","m","a","t","i","c","a">>, "Tecnologia">>,
       <<<<"á","u","d","i","o",","," ","v","í","d","e","o"," ","e"," ","i","l","u","m","i","n","a","ç","ã","o">>, "Tecnologia">>,
       <<<<"e","l","e","t","r","o","d","o","m","e","s","t","i","c","o","s">>, "Tecnologia">>,
       <<<<"m","o","v","e","i","s"," ","p","a","r","a"," ","e","s","c","r","i","t","ó","r","i","o">>, "Casa & Consumo">>,
       <<<<"m","ó","v","e","i","s"," ","p","/"," ","c","a","s","a">>, "Casa & Consumo">>,
       <<<<"l","a","z","e","r","/","e","s","p","o","r","t","e","s">>, "Casa & Consumo">>,
       <<<<"u","s","o"," ","p","e","s","s","o","a","l">>, "Casa & Consumo">>,
       <<<<"m","a","t","e","r","i","a","i","s"," ","e","s","c","o","l","a","r","e","s">>, "Casa & Consumo">>,
       <<<<"a","c","a","d","e","m","i","a">>, "Industrial & Empresarial">>,
       <<<<"e","s","q","u","a","d","r","i","a","s"," ","e"," ","e","s","t","r","u","t","u","r","a","s"," ","m","e","t","á","l","i","c","a","s">>, "Industrial & Empresarial">>,
       <<<<"f","e","r","r","a","m","e","n","t","a","s">>, "Industrial & Empresarial">>,
       <<<<"h","o","s","p","i","t","a","l","a","r">>, "Industrial & Empresarial">>,
       <<<<"d","i","v","e","r","s","o","s">>, "Materiais & Sucatas">>,
       <<<<"i","n","s","t","r","u","m","e","n","t","o","s"," ","m","u","s","i","c","a","i","s">>, "Arte & Colecionáveis">>,
       <<<<"u","n","k","n","o","w","n">>, "Outros">>
    >>

MappingKeys == {category_mapping[i][1] : i \in 1..Len(category_mapping)}

\* category_mapping.get(key): the value, or "None"
MappingGet(key) ==
    IF key \in MappingKeys
    THEN category_mapping[CHOOSE i \in 1..Len(category_mapping) : category_mapping[i][1] = key][2]
    ELSE "None"

(***************************************************************************)
(* SodreScraperCategorizado._categorize_item                               *)
(***************************************************************************)
\* the fallback rules of _categorize_item as a table: the substrings of each
\* if statement and the category it returns, in the order of the statements
FallbackRules ==
    << [subs |-> {<<"i","m","o","v","e","l">>, <<"i","m","ó","v","e","l">>, <<"a","p","a","r","t","a","m","e","n","t","o">>, <<"c","a","s","a">>, <<"t","e","r","r","e","n","o">>, <<"g","a","l","p","ã","o">>},
        cat  |-> "Imóveis"],
       [subs |-> {<<"c","a","r","r","o">>, <<"m","o","t","o">>, <<"c","a","m","i","n","h","ã","o">>, <<"v","e","í","c","u","l","o">>, <<"v","e","i","c","u","l","o">>, <<"ô","n","i","b","u","s">>},
        cat  |-> "Veículos"],
       [subs |-> {<<"t","r","a","t","o","r">>, <<"e","m","p","i","l","h","a","d","e","i","r","a">>, <<"g","e","r","a","d","o","r">>, <<"c","o","m","p","r","e","s","s","o","r">>, <<"i","m","p","l","e","m","e","n","t","o">>},
        cat  |-> "Máquinas & Equipamentos"],
       [subs |-> {<<"i","n","f","o","r","m","á","t","i","c","a">>, <<"i","n","f","o","r","m","a","t","i","c","a">>, <<"e","l","e","t","r","o","n">>, <<"e","l","e","t","r">>, <<"á","u","d","i","o">>, <<"a","u","d","i","o">>},
        cat  |-> "Tecnologia"],
       [subs |-> {<<"m","ó","v","e","l">>, <<"m","o","v","e","l">>, <<"l","a","z","e","r">>, <<"e","s","p","o","r","t","e">>},
        cat  |-> "Casa & Consumo"],
       [subs |-> {<<"f","e","r","r","a","m","e","n","t","a">>, <<"i","n","d","u","s","t","r","i","a","l">>, <<"a","c","a","d","e","m","i","a">>, <<"h","o","s","p","i","t","a","l","a","r">>},
        cat  |-> "Industrial & Empresarial"],
       [subs |-> {<<"s","u","c","a","t","a">>, <<"m","a","t","e","r","i","a","l">>, <<"d","i","v","e","r","s","o","s">>},
        cat  |-> "Materiais & Sucatas"],
       [subs |-> {<<"i","n","s","t","r","u","m","e","n","t","o">>, <<"m","u","s","i","c","a","l">>, <<"a","r","t","e">>, <<"c","o","l","e","c","i","o","n","á","v","e","l">>},
        cat  |-> "Arte & Colecionáveis"] >>

FallbackWords == UNION {FallbackRules[i].subs : i \in 1..Len(FallbackRules)}

\* the fallback rules of which a substring occurs in the text c
MatchingRules(c) ==
    {i \in 1..Len(FallbackRules) : \E sub \in FallbackRules[i].subs : In(sub, c)}

\* faulty variant: the label is trimmed but not lower-cased
CleanSubcategory_NoLower(subcategory) == Strip(subcategory)

\* subcategory.lower().strip()
CleanSubcategory(subcategory) == Strip(Lower(subcategory))

\* faulty variant: the last matching rule wins instead of the first
FallbackCategory_LastRuleWins(c) ==
    IF MatchingRules(c) = {} THEN "Outros"
    ELSE FallbackRules[SetMax(MatchingRules(c))].cat

\* the substring fallback, in the order of the if statements
FallbackCategory(c) ==
    IF \/ In(<<"i","m","o","v","e","l">>, c) \/ In(<<"i","m","ó","v","e","l">>, c)
       \/ In(<<"a","p","a","r","t","a","m","e","n","t","o">>, c) \/ In(<<"c","a","s","a">>, c)
       \/ In(<<"t","e","r","r","e","n","o">>, c) \/ In(<<"g","a","l","p","ã","o">>, c)
    THEN "Imóveis"
    ELSE IF \/ In(<<"c","a","r","r","o">>, c) \/ In(<<"m","o","t","o">>, c)
            \/ In(<<"c","a","m","i","n","h","ã","o">>, c) \/ In(<<"v","e","í","c","u","l","o">>, c)
            \/ In(<<"v","e","i","c","u","l","o">>, c) \/ In(<<"ô","n","i","b","u","s">>, c)
    THEN "Veículos"
    ELSE IF \/ In(<<"t","r","a","t","o","r">>, c) \/ In(<<"e","m","p","i","l","h","a","d","e","i","r","a">>, c)
            \/ In(<<"g","e","r","a","d","o","r">>, c) \/ In(<<"c","o","m","p","r","e","s","s","o","r">>, c)
            \/ In(<<"i","m","p","l","e","m","e","n","t","o">>, c)
    THEN "Máquinas & Equipamentos"
    ELSE IF \/ In(<<"i","n","f","o","r","m","á","t","i","c","a">>, c) \/ In(<<"i","n","f","o","r","m","a","t","i","c","a">>, c)
            \/ In(<<"e","l","e","t","r","o","n">>, c) \/ In(<<"e","l","e","t","r">>, c)
            \/ In(<<"á","u","d","i","o">>, c) \/ In(<<"a","u","d","i","o">>, c)
    THEN "Tecnologia"
    ELSE IF \/ In(<<"m","ó","v","e","l">>, c) \/ In(<<"m","o","v","e","l">>, c)
            \/ In(<<"l","a","z","e","r">>, c) \/ In(<<"e","s","p","o","r","t","e">>, c)
    THEN "Casa & Consumo"
    ELSE IF \/ In(<<"f","e","r","r","a","m","e","n","t","a">>, c) \/ In(<<"i","n","d","u","s","t","r","i","a","l">>, c)
            \/ In(<<"a","c","a","d","e","m","i","a">>, c) \/ In(<<"h","o","s","p","i","t","a","l","a","r">>, c)
    THEN "Industrial & Empresarial"
    ELSE IF \/ In(<<"s","u","c","a","t","a">>, c) \/ In(<<"m","a","t","e","r","i","a","l">>, c)
            \/ In(<<"d","i","v","e","r","s","o","s">>, c)
    THEN "Materiais & Sucatas"
    ELSE IF \/ In(<<"i","n","s","t","r","u","m","e","n","t","o">>, c) \/ In(<<"m","u","s","i","c","a","l">>, c)
            \/ In(<<"a","r","t","e">>, c) \/ In(<<"c","o","l","e","c","i","o","n","á","v","e","l">>, c)
    THEN "Arte & Colecionáveis"
    ELSE "Outros"

\* faulty variant: an absent label gets the category 'Unknown'
_categorize_item_Unknown(subcategory) ==
    IF ~Truthy(subcategory) THEN "Unknown"
    ELSE LET subcategory_clean == CleanSubcategory(subcategory.s)
             category == MappingGet(subcategory_clean)
         IN  IF category \notin {"None", ""} THEN category
             ELSE FallbackCategory(subcategory_clean)

\* faulty variant: the substring fallback is tried before the table
_categorize_item_FallbackFirst(subcategory) ==
    IF ~Truthy(subcategory) THEN "Outros"
    ELSE LET subcategory_clean == CleanSubcategory(subcategory.s)
             category == MappingGet(subcategory_clean)
         IN  IF FallbackCategory(subcategory_clean) # "Outros"
             THEN FallbackCategory(subcategory_clean)
             ELSE IF category \notin {"None", ""} THEN category
             ELSE "Outros"

_categorize_item(subcategory) ==
    IF ~Truthy(subcategory) THEN "Outros"
    ELSE LET subcategory_clean == CleanSubcategory(subcategory.s)
             category == MappingGet(subcategory_clean)
         IN  IF category \notin {"None", ""} THEN category
             ELSE FallbackCategory(subcategory_clean)

(***************************************************************************)
(* UniversalNormalizer                                                     *)
(***************************************************************************)
VALID_STATES ==
    << <<"A","C">>, <<"A","L">>, <<"A","P">>, <<"A","M">>, <<"B","A">>, <<"C","E">>, <<"D","F">>, <<"E","S">>, <<"G","O">>, <<"M","A">>,
       <<"M","T">>, <<"M","S">>, <<"M","G">>, <<"P","A">>, <<"P","B">>, <<"P","R">>, <<"P","E">>, <<"P","I">>, <<"R","J">>, <<"R","N">>,
       <<"R","S">>, <<"R","O">>, <<"R","R">>, <<"S","C">>, <<"S","P">>, <<"S","E">>, <<"T","O">> >>

LOWERCASE_WORDS ==
    { <<"d","e">>, <<"d","a">>, <<"d","o">>, <<"d","a","s">>, <<"d","o","s">>, <<"e">>, <<"e","m">>, <<"c","o","m">>, <<"p","a","r","a">>, <<"p","o","r">>,
      <<"a">>, <<"o">>, <<"à">>, <<"a","o">>, <<"n","o">>, <<"n","a">>, <<"u","m">>, <<"u","m","a">> }

\* x in a_list
InList(x, list) == \E i \in 1..Len(list) : list[i] = x

\* faulty variant: the code is trimmed but not upper-cased
_validate_state_NoUpper(state) ==
    IF ~Truthy(state) THEN None
    ELSE LET state_clean == Strip(PyStr(state))
         IN  IF InList(state_clean, VALID_STATES) THEN VStr(state_clean) ELSE None

_validate_state(state) ==
    IF ~Truthy(state) THEN None
    ELSE LET state_clean == Upper(Strip(PyStr(state)))
         IN  IF InList(state_clean, VALID_STATES) THEN VStr(state_clean) ELSE None

\* faulty variant: only all-caps words shorter than 5 characters are preserved
TitleWord_Shorter(word) ==
    LET word_lower == Lower(word)
    IN  IF IsUpper(word) /\ Len(word) < 5 THEN word
        ELSE IF word_lower \in LOWERCASE_WORDS THEN word_lower
        ELSE Capitalize(word)

\* the body of the loop of _smart_title_case over words[1:]
TitleWord(word) ==
    LET word_lower == Lower(word)
    IN  IF IsUpper(word) /\ Len(word) <= 5 THEN word
        ELSE IF word_lower \in LOWERCASE_WORDS THEN word_lower
        ELSE Capitalize(word)

_smart_title_case(text) ==
    IF text = <<>> THEN text
    ELSE LET words == Split(text)
         IN  IF words = <<>> THEN text
             ELSE Join(<<" ">>, [i \in 1..Len(words) |->
                                 IF i = 1 THEN Capitalize(words[1]) ELSE TitleWord(words[i])])

SemTitulo == <<"S","e","m"," ","T","í","t","u","l","o">>

\* the characters U+2014 and U+2013, each one character of a text
EmDash == "[em dash]"

EnDash == "[en dash]"

\* r'^LOTE\s+\d+\s*[-:—–]?\s*' with re.IGNORECASE: the position after the
\* match at the start of s, or 0
LotPrefixEnd(s) ==
    LET a == SkipWhile(IsSpace, s, 5)
        b == SkipWhile(IsDigit, s, a)
        c == SkipWhile(IsSpace, s, b)
        d == IF At(s, c) \in {"-", ":", EmDash, EnDash} THEN c + 1 ELSE c
    IN  IF MatchAtI(<<"L","O","T","E">>, s, 1) /\ a > 5 /\ b > a
        THEN SkipWhile(IsSpace, s, d)
        ELSE 0

\* r'<[^>]+>'
TagEnd(s, i) ==
    LET j == SkipWhile(LAMBDA c : c # ">", s, i + 1)
    IN  IF s[i] = "<" /\ j > i + 1 /\ j <= Len(s) THEN j + 1 ELSE 0

\* r'\d+[ªº]\s*pra[çc]a' with re.IGNORECASE
RoundEnd(s, i) ==
    LET a == SkipWhile(IsDigit, s, i)
        b == SkipWhile(IsSpace, s, a + 1)
    IN  IF /\ a > i
           /\ At(s, a) \in {"ª", "º"}
           /\ MatchAtI(<<"p","r","a">>, s, b)
           /\ LowerCh(At(s, b + 3)) \in {"ç", "c"}
           /\ LowerCh(At(s, b + 4)) = "a"
        THEN b + 5
        ELSE 0

\* r'\d+%\s*(?:abaixo|desconto|off)?\s*na\s*\d+[ªº]\s*pra[çc]a' with re.IGNORECASE
DiscountRoundEnd(s, i) ==
    LET a == SkipWhile(IsDigit, s, i)
        b == SkipWhile(IsSpace, s, a + 1)
        c == IF MatchAtI(<<"a","b","a","i","x","o">>, s, b) THEN b + 6
             ELSE IF MatchAtI(<<"d","e","s","c","o","n","t","o">>, s, b) THEN b + 8
             ELSE IF MatchAtI(<<"o","f","f">>, s, b) THEN b + 3
             ELSE b
        d == SkipWhile(IsSpace, s, c)
        e == SkipWhile(IsSpace, s, d + 2)
    IN  IF a > i /\ At(s, a) = "%" /\ MatchAtI(<<"n","a">>, s, d)
        THEN RoundEnd(s, e)
        ELSE 0

\* r'\s*,?\s*Placa\s+FINAL\s+\d+\s*\([A-Z]{2}\)\s*,?' with re.IGNORECASE
PlacaEnd(s, i) ==
    LET a == SkipWhile(IsSpace, s, i)
        b == IF At(s, a) = "," THEN a + 1 ELSE a
        c == SkipWhile(IsSpace, s, b)
        d == SkipWhile(IsSpace, s, c + 5)
        e == SkipWhile(IsSpace, s, d + 5)
        f == SkipWhile(IsDigit, s, e)
        g == SkipWhile(IsSpace, s, f)
        h == SkipWhile(IsSpace, s, g + 4)
    IN  IF /\ MatchAtI(<<"P","l","a","c","a">>, s, c) /\ d > c + 5
           /\ MatchAtI(<<"F","I","N","A","L">>, s, d) /\ e > d + 5
           /\ f > e
           /\ At(s, g) = "("
           /\ At(s, g + 1) \in AsciiLetters /\ At(s, g + 2) \in AsciiLetters
           /\ At(s, g + 3) = ")"
        THEN IF At(s, h) = "," THEN h + 1 ELSE h
        ELSE 0

\* r'\s+'
SpacesEnd(s, i) == IF IsSpace(s[i]) THEN SkipWhile(IsSpace, s, i) ELSE 0

\* r'R\$\s*[\d.,]+'
AmountEnd(s, i) ==
    LET a == SkipWhile(IsSpace, s, i + 2)
        b == SkipWhile(LAMBDA c : IsDigit(c) \/ c \in {".", ","}, s, a)
    IN  IF s[i] = "R" /\ At(s, i + 1) = "$" /\ b > a THEN b ELSE 0

\* clean[:n - 3] + '...' when len(clean) > n
Truncate(clean, n) == IF Len(clean) > n THEN Prefix(clean, n - 3) \o <<".",".",".">> ELSE clean

\* the title is a Python value, the result a str
\* the text from position e on, when e is the end of a match at its start
DropMatch(clean, e) == IF e > 0 THEN SubSeq(clean, e, Len(clean)) ELSE clean

\* the two round patterns, removed when remove_auction_info is set
RemoveRounds(clean, remove_auction_info) ==
    IF remove_auction_info
    THEN ReSub(RoundEnd, <<>>, ReSub(DiscountRoundEnd, <<>>, clean))
    ELSE clean

\* clean if clean else 'Sem Título'
OrSemTitulo(clean) == IF clean # <<>> THEN clean ELSE SemTitulo

\* the steps of _clean_title on the stripped text of a title that is not blank
CleanedTitle(stripped, remove_auction_info) ==
    LET c1 == DropMatch(stripped, LotPrefixEnd(stripped))
        c2 == ReSub(TagEnd, <<>>, c1)
        c3 == Replace(<<"&","a","m","p",";">>, <<"&">>, Replace(<<"&","n","b","s","p",";">>, <<" ">>, c2))
        c4 == RemoveRounds(c3, remove_auction_info)
        c5 == Strip(RStrip({","}, c4))
        c6 == ReSub(PlacaEnd, <<>>, c5)
        c7 == Replace(<<"_">>, <<" ">>, c6)
        c8 == Strip(ReSub(SpacesEnd, <<" ">>, c7))
        c9 == ReSub(AmountEnd, <<>>, c8)
    IN  OrSemTitulo(Truncate(c9, 200))

\* the title is a Python value, the result a str
_clean_title(title, remove_auction_info) ==
    IF ~Truthy(title) \/ Strip(PyStr(title)) = <<>> THEN SemTitulo
    ELSE CleanedTitle(Strip(PyStr(title)), remove_auction_info)

\* r'<br\s*/?>' with re.IGNORECASE
BrEnd(s, i) ==
    LET a == SkipWhile(IsSpace, s, i + 3)
        b == IF At(s, a) = "/" THEN a + 1 ELSE a
    IN  IF MatchAtI(<<"<","b","r">>, s, i) /\ At(s, b) = ">" THEN b + 1 ELSE 0

\* r'&#\d+;'
EntityEnd(s, i) ==
    LET a == SkipWhile(IsDigit, s, i + 2)
    IN  IF MatchAt(<<"&","#">>, s, i) /\ a > i + 2 /\ At(s, a) = ";" THEN a + 1 ELSE 0

\* r'\n\s*\n\s*\n+': from a newline through the last newline of the run of
\* whitespace it starts, when the run holds two more newlines
BlankLinesEnd(s, i) ==
    LET e == SkipWhile(IsSpace, s, i)
        newlines == {j \in (i + 1)..(e - 1) : s[j] = "\n"}
    IN  IF s[i] = "\n" /\ Cardinality(newlines) >= 2 THEN SetMax(newlines) + 1 ELSE 0

\* r' {2,}'
BlanksEnd(s, i) ==
    LET e == SkipWhile(LAMBDA c : c = " ", s, i)
    IN  IF e >= i + 2 THEN e ELSE 0

\* r'https?://[^\s]+'
UrlEnd(s, i) ==
    LET a == IF At(s, i + 4) = "s" THEN i + 5 ELSE i + 4
        b == SkipWhile(LAMBDA c : ~IsSpace(c), s, a + 3)
    IN  IF MatchAt(<<"h","t","t","p">>, s, i) /\ MatchAt(<<":","/","/">>, s, a) /\ b > a + 3 THEN b ELSE 0

\* r'\S+@\S+': the rest of the run of non-whitespace from i on, when an '@'
\* of it has a character of the run on either side
EmailEnd(s, i) ==
    LET e == SkipWhile(LAMBDA c : ~IsSpace(c), s, i)
    IN  IF \E b \in (i + 1)..(e - 2) : s[b] = "@" THEN e ELSE 0

\* r'-?\d{4}' at position p
PhoneTailEnd(s, p) ==
    LET q == IF At(s, p) = "-" THEN p + 1 ELSE p
    IN  IF \A k \in 0..3 : IsDigit(At(s, q + k)) THEN q + 4 ELSE 0

\* r'\(\d{2}\)\s*\d{4,5}-?\d{4}': five digits are tried before four
PhoneEnd(s, i) ==
    LET a == SkipWhile(IsSpace, s, i + 4)
        n == SkipWhile(IsDigit, s, a) - a
    IN  IF s[i] = "(" /\ IsDigit(At(s, i + 1)) /\ IsDigit(At(s, i + 2)) /\ At(s, i + 3) = ")"
        THEN IF n >= 5 /\ PhoneTailEnd(s, a + 5) > 0 THEN PhoneTailEnd(s, a + 5)
             ELSE IF n >= 4 THEN PhoneTailEnd(s, a + 4)
             ELSE 0
        ELSE 0

\* '\n'.join of the stripped non-blank lines
StrippedLines(desc) ==
    LET lines == SplitOn("\n", desc)
        kept  == SelectSeq([k \in 1..Len(lines) |-> Strip(lines[k])], LAMBDA line : line # <<>>)
    IN  Join(<<"\n">>, kept)

\* the description is a Python value; the result is a str value or None
\* desc if desc else None
StrOrNone(desc) == IF desc # <<>> THEN VStr(desc) ELSE None

\* the steps of _deep_clean_description on the stripped text
CleanedDescription(stripped) ==
    IF stripped = <<>> \/ Len(stripped) < 5 THEN None
    ELSE LET d1 == ReSub(BrEnd, <<"\n">>, stripped)
             d2 == ReSub(LAMBDA t, i : LitEndI(<<"<","p",">">>, t, i), <<"\n", "\n">>, d1)
             d3 == ReSub(LAMBDA t, i : LitEndI(<<"<","/","p",">">>, t, i), <<"\n">>, d2)
             d4 == ReSub(TagEnd, <<>>, d3)
             d5 == Replace(<<"&","a","m","p",";">>, <<"&">>, Replace(<<"&","n","b","s","p",";">>, <<" ">>, d4))
             d6 == ReSub(EntityEnd, <<>>, d5)
             d7 == ReSub(BlankLinesEnd, <<"\n", "\n">>, d6)
             d8 == ReSub(BlanksEnd, <<" ">>, d7)
             d9 == StrippedLines(d8)
             d10 == ReSub(UrlEnd, <<>>, d9)
             d11 == ReSub(EmailEnd, <<>>, d10)
             d12 == ReSub(PhoneEnd, <<>>, d11)
             d13 == Strip(ReSub(SpacesEnd, <<" ">>, d12))
         IN  StrOrNone(Truncate(d13, 5000))

\* the description is a Python value; the result is a str value or None
_deep_clean_description(description, remove_auction_info) ==
    IF ~Truthy(description) THEN None ELSE CleanedDescription(Strip(PyStr(description)))

\* the replacements dict of _normalize_for_search
Unaccent(c) ==
    CASE c \in {"á", "à", "â", "ã", "ä"} -> "a"
      [] c \in {"é", "è", "ê", "ë"} -> "e"
      [] c \in {"í", "ì", "î", "ï"} -> "i"
      [] c \in {"ó", "ò", "ô", "õ", "ö"} -> "o"
      [] c \in {"ú", "ù", "û", "ü"} -> "u"
      [] c = "ç" -> "c"
      [] c = "ñ" -> "n"
      [] OTHER -> c

\* the title is a str
_normalize_for_search(title) ==
    IF title = <<>> THEN <<>>
    ELSE LET lowered  == Lower(title)
             folded   == [i \in 1..Len(lowered) |-> Unaccent(lowered[i])]
             replaced == [i \in 1..Len(folded) |->
                             IF IsWord(folded[i]) \/ IsSpace(folded[i]) THEN folded[i] ELSE " "]
         IN  Strip(ReSub(SpacesEnd, <<" ">>, replaced))

\* faulty variant: a description of any length is used for the preview
_create_preview_AnyLength(description, title) ==
    IF Truthy(description)
    THEN Strip(Prefix(description.s, 150))
             \o (IF Len(description.s) > 150 THEN <<".",".",".">> ELSE <<>>)
    ELSE IF title # <<>> THEN Prefix(title, 150)
    ELSE <<"S","e","m"," ","D","e","s","c","r","i","ç","ã","o">>

\* the description is a str value or None, the title a str
_create_preview(description, title) ==
    IF Truthy(description) /\ Len(description.s) > 10
    THEN LET preview == Strip(Prefix(description.s, 150))
         IN  IF Len(description.s) > 150 THEN preview \o <<".",".",".">> ELSE preview
    ELSE IF title # <<>> THEN Prefix(title, 150)
    ELSE <<"S","e","m"," ","D","e","s","c","r","i","ç","ã","o">>

(***************************************************************************)
(* Numbers: a float is held in thousandths.                                *)
(***************************************************************************)
\* the fraction of a float in thousandths, as str() prints it
FractionText(r) ==
    IF r % 100 = 0 THEN DigitsOf(r \div 100)
    ELSE IF r % 10 = 0 THEN DigitsOf(r \div 100) \o DigitsOf((r \div 10) % 10)
    ELSE DigitsOf(r \div 100) \o DigitsOf((r \div 10) % 10) \o DigitsOf(r % 10)

FloatText(m) ==
    LET a == IF m < 0 THEN -m ELSE m
    IN  (IF m < 0 THEN <<"-">> ELSE <<>>) \o DigitsOf(a \div 1000) \o <<".">> \o FractionText(a % 1000)

VFloat(m) == [t |-> "float", s |-> FloatText(m), n |-> m, d |-> NoItems]

VNan == [t |-> "float", s |-> <<"n","a","n">>, n |-> 0, d |-> NoItems]

VInf == [t |-> "float", s |-> <<"i","n","f">>, n |-> 0, d |-> NoItems]

VNegInf == [t |-> "float", s |-> <<"-","i","n","f">>, n |-> 0, d |-> NoItems]

DigitVal(c) == CHOOSE k \in 0..9 : DigitChars[k + 1] = c

\* the number written by a text of digits
RECURSIVE DigitsValue(_)
DigitsValue(ds) ==
    IF ds = <<>> THEN 0
    ELSE 10 * DigitsValue(SubSeq(ds, 1, Len(ds) - 1)) + DigitVal(ds[Len(ds)])

\* a text stripped and split into its sign and the rest
SignedOf(t) ==
    IF At(t, 1) \in {"+", "-"}
    THEN [neg |-> t[1] = "-", body |-> SubSeq(t, 2, Len(t))]
    ELSE [neg |-> FALSE, body |-> t]

Signed(s) == SignedOf(Strip(s))

\* int(text): an optional sign and digits, surrounded by whitespace
IntOfSigned(p) ==
    IF IsDigitStr(p.body)
    THEN VInt(IF p.neg THEN -DigitsValue(p.body) ELSE DigitsValue(p.body))
    ELSE Raised("ValueError")

IntOfText(s) == IntOfSigned(Signed(s))

\* int(value)
IntOf(v) ==
    CASE v.t = "int" -> v
      [] v.t = "bool" -> VInt(v.n)
      [] v.t = "float" ->
            IF v.s = <<"n","a","n">> THEN Raised("ValueError")
            ELSE IF v.s \in {<<"i","n","f">>, <<"-","i","n","f">>} THEN Raised("OverflowError")
            ELSE VInt(IF v.n < 0 THEN -((-v.n) \div 1000) ELSE v.n \div 1000)
      [] v.t = "str" -> IntOfText(v.s)
      [] OTHER -> Raised("TypeError")

\* the thousandths written by the digits after the point (texts of the
\* model carry at most three of them)
Thousandths(fr) == DigitsValue(Prefix(fr \o <<"0","0","0">>, 3))

\* float(text): digits with an optional point, or inf / infinity / nan,
\* with an optional sign and surrounded by whitespace
FloatOfParts(neg, body, dot) ==
    LET whole == SubSeq(body, 1, dot - 1)
        fr    == SubSeq(body, dot + 1, Len(body))
    IN  IF Lower(body) = <<"n","a","n">> THEN VNan
        ELSE IF Lower(body) \in {<<"i","n","f">>, <<"i","n","f","i","n","i","t","y">>}
        THEN (IF neg THEN VNegInf ELSE VInf)
        ELSE IF \/ IsDigitStr(body)
                \/ /\ At(body, dot) = "."
                   /\ whole # <<>> \/ fr # <<>>
                   /\ \A i \in 1..Len(fr) : IsDigit(fr[i])
        THEN VFloat((IF neg THEN -1 ELSE 1) * (1000 * DigitsValue(whole) + Thousandths(fr)))
        ELSE Raised("ValueError")

FloatOfSigned(p) == FloatOfParts(p.neg, p.body, SkipWhile(IsDigit, p.body, 1))

FloatOfText(s) == FloatOfSigned(Signed(s))

\* float(value)
FloatOf(v) ==
    CASE v.t \in {"int", "bool"} -> VFloat(1000 * v.n)
      [] v.t = "float" -> v
      [] v.t = "str" -> FloatOfText(v.s)
      [] OTHER -> Raised("TypeError")

\* the thousandths below 1000 that end in 5 and whose float lies above them:
\* round(x, 2) rounds these up and the other inexact ones down
TiesAbove ==
    {
      5, 25, 35, 55, 65, 85, 95, 115, 135, 165, 195, 225, 255, 265, 275,
      315, 325, 335, 385, 395, 405, 445, 455, 465, 505, 515, 525, 535,
      545, 555, 635, 645, 655, 665, 675, 685, 755, 765, 775, 785, 795,
      805, 885, 895, 905, 915, 925, 935 }

\* round(val, 2) of a float that is not negative: a float that ends in 5
\* thousandths is a tie only when it is exact (a multiple of 0.125), and then
\* rounds to the even hundredth (the inexact ones of the model are below 1)
RoundCents(m) ==
    LET r == m % 10
    IN  IF r = 0 THEN m
        ELSE IF r < 5 THEN m - r
        ELSE IF r > 5 THEN m - r + 10
        ELSE IF m % 125 = 0 THEN (IF ((m - 5) \div 10) % 2 = 0 THEN m - 5 ELSE m + 5)
        ELSE IF m \in TiesAbove THEN m + 5
        ELSE m - 5

(***************************************************************************)
(* UniversalNormalizer: the field rules and normalize.                     *)
(***************************************************************************)
\* the float of the value, rounded, or None when float() raised or gave a
\* negative number
RoundedOrNone(val) ==
    IF val.t = "raised" THEN None
    ELSE IF val.s = <<"n","a","n">> \/ val.s = <<"i","n","f">> THEN val
    ELSE IF val.s = <<"-","i","n","f">> \/ val.n < 0 THEN None
    ELSE VFloat(RoundCents(val.n))

_parse_value(value) == IF value.t = "None" THEN None ELSE RoundedOrNone(FloatOf(value))

\* text.split(sep)[0].strip() when sep is in the text
BeforeSep(sep, text) == IF In(<<sep>>, text) THEN Strip(SplitOn(sep, text)[1]) ELSE text

CityOf(city_clean) ==
    IF city_clean = <<>> THEN None
    ELSE VStr(_smart_title_case(BeforeSep("-", BeforeSep("/", city_clean))))

_clean_city(city) == IF ~Truthy(city) THEN None ELSE CityOf(Strip(PyStr(city)))

AddressOf(addr) ==
    IF addr = <<>> \/ Len(addr) < 3 THEN None
    ELSE VStr(Truncate(_smart_title_case(addr), 255))

_clean_address(address) == IF ~Truthy(address) THEN None ELSE AddressOf(Strip(PyStr(address)))

\* faulty variant: the pattern has to match the whole text
DateMatch_Whole(s) ==
    /\ \A i \in {1, 2, 3, 4, 6, 7, 9, 10} : IsDigit(At(s, i))
    /\ At(s, 5) = "-"
    /\ At(s, 8) = "-"
    /\ \/ Len(s) = 10
       \/ /\ Len(s) = 19
          /\ At(s, 11) \in {"T", " "}
          /\ \A i \in {12, 13, 15, 16, 18, 19} : IsDigit(At(s, i))
          /\ At(s, 14) = ":"
          /\ At(s, 17) = ":"

\* re.match(r'\d{4}-\d{2}-\d{2}(?:[T\s]\d{2}:\d{2}:\d{2})?', s): the pattern is
\* looked for at the start of s and its time part is optional
DateMatch(s) ==
    /\ \A i \in {1, 2, 3, 4, 6, 7, 9, 10} : IsDigit(At(s, i))
    /\ At(s, 5) = "-"
    /\ At(s, 8) = "-"

DateOf(date_clean) ==
    IF date_clean = <<>> THEN None
    ELSE IF DateMatch(date_clean) THEN VStr(date_clean)
    ELSE None

_parse_date(date_str) == IF ~Truthy(date_str) THEN None ELSE DateOf(Strip(PyStr(date_str)))

\* faulty variant: a negative number of days is returned as it is
ClampedOrNone_NoClamp(days_int) == IF days_int.t = "raised" THEN None ELSE days_int

\* max(0, days_int), or None when int() raised
ClampedOrNone(days_int) ==
    IF days_int.t = "raised" THEN None
    ELSE IF days_int.n < 0 THEN VInt(0)
    ELSE days_int

_parse_days_remaining(days) == IF days.t = "None" THEN None ELSE ClampedOrNone(IntOf(days))

TextOf(clean, default) ==
    IF clean = <<>> THEN default
    ELSE VStr(Truncate(IF ~IsDigitStr(clean) THEN _smart_title_case(clean) ELSE clean, 200))

_clean_text(text, default) ==
    IF ~Truthy(text) THEN default ELSE TextOf(Strip(PyStr(text)), default)

\* the int of the value, or the default when int() raised
IntOrDefault(r, default) == IF r.t = "raised" THEN VInt(default) ELSE r

_parse_int(value, default) ==
    IF value.t = "None" THEN VInt(default) ELSE IntOrDefault(IntOf(value), default)

extra_fields == <<"raw_category", "condition", "brand", "model", "year", "quantity", "unit_price">>

\* faulty variant: an entry of the input metadata is kept when an extra
\* field has the same name
_build_metadata_KeepExisting(item) ==
    LET metadata == IF Get(item, "metadata", None).t = "dict" THEN item["metadata"].d ELSE NoItems
        extra    == {extra_fields[i] : i \in 1..Len(extra_fields)}
        set      == {field \in extra : field \in DOMAIN item /\ item[field].t # "None"}
    IN  [field \in (DOMAIN metadata) \cup set |->
            IF field \in DOMAIN metadata THEN metadata[field] ELSE item[field]]

\* the item is the mapping of a dict; the result is the mapping of the
\* metadata: the copied items, overwritten by the extra fields
_build_metadata(item) ==
    LET metadata == IF Get(item, "metadata", None).t = "dict" THEN item["metadata"].d ELSE NoItems
        extra    == {extra_fields[i] : i \in 1..Len(extra_fields)}
        set      == {field \in extra : field \in DOMAIN item /\ item[field].t # "None"}
    IN  [field \in (DOMAIN metadata) \cup set |->
            IF field \in set THEN item[field] ELSE metadata[field]]

\* r'-j\d+$' with re.IGNORECASE ($ is the end of the text or the position
\* before a newline that ends it)
AtEnd(s, p) == p = Len(s) + 1 \/ (p = Len(s) /\ s[p] = "\n")

ProcessSuffixEnd(s, i) ==
    LET e == SkipWhile(IsDigit, s, i + 2)
    IN  IF s[i] = "-" /\ LowerCh(At(s, i + 1)) = "j" /\ e > i + 2 /\ AtEnd(s, e) THEN e ELSE 0

\* r'-\d{5,}$'
NumberSuffixEnd(s, i) ==
    LET e == SkipWhile(IsDigit, s, i + 1)
    IN  IF s[i] = "-" /\ e >= i + 6 /\ AtEnd(s, e) THEN e ELSE 0

\* r'[^\w\s]'
SymbolEnd(s, i) == IF ~IsWord(s[i]) /\ ~IsSpace(s[i]) THEN i + 1 ELSE 0

\* the external_id is a str
_extract_title_from_external_id(external_id) ==
    IF external_id = <<>> THEN SemTitulo
    ELSE LET c0 == IF MatchAt(<<"m","e","g","a","l","e","i","l","o","e","s","_">>, external_id, 1)
                   THEN SubSeq(external_id, 13, Len(external_id))
                   ELSE external_id
             c1 == ReSub(ProcessSuffixEnd, <<>>, c0)
             c2 == ReSub(NumberSuffixEnd, <<>>, c1)
             c3 == Replace(<<"_">>, <<" ">>, Replace(<<"-">>, <<" ">>, c2))
             c4 == Strip(ReSub(SpacesEnd, <<" ">>, c3))
             c5 == ReSub(SymbolEnd, <<>>, c4)
             clean == Truncate(c5, 200)
         IN  IF clean # <<>> THEN clean ELSE SemTitulo

\* the record normalize returns for the mapping item, once the title is known
RecordOf(item, title, clean_description) ==
        VDict(<<>>,
          [ source |-> Get(item, "source", None),
            external_id |-> Get(item, "external_id", None),
            title |-> VStr(title),
            normalized_title |-> VStr(_normalize_for_search(title)),
            description |-> clean_description,
            description_preview |-> VStr(_create_preview(clean_description, title)),
            value |-> _parse_value(Get(item, "value", None)),
            value_text |-> Get(item, "value_text", None),
            auction_round |-> Get(item, "auction_round", None),
            discount_percentage |-> Get(item, "discount_percentage", None),
            first_round_value |-> _parse_value(Get(item, "first_round_value", None)),
            first_round_date |-> Get(item, "first_round_date", None),
            city |-> _clean_city(Get(item, "city", None)),
            state |-> _validate_state(Get(item, "state", None)),
            address |-> _clean_address(Get(item, "address", None)),
            auction_date |-> _parse_date(Get(item, "auction_date", None)),
            days_remaining |-> _parse_days_remaining(Get(item, "days_remaining", None)),
            auction_type |-> _clean_text(Get(item, "auction_type", None), VStr(<<"L","e","i","l","ã","o">>)),
            auction_name |-> _clean_text(Get(item, "auction_name", None), None),
            store_name |-> _clean_text(Get(item, "store_name", None), None),
            lot_number |-> _clean_text(Get(item, "lot_number", None), None),
            total_visits |-> _parse_int(Get(item, "total_visits", None), 0),
            total_bids |-> _parse_int(Get(item, "total_bids", None), 0),
            total_bidders |-> _parse_int(Get(item, "total_bidders", None), 0),
            link |-> Get(item, "link", None),
            vehicle_type |-> Get(item, "vehicle_type", None),
            property_type |-> Get(item, "property_type", None),
            animal_type |-> Get(item, "animal_type", None),
            appliance_type |-> Get(item, "appliance_type", None),
            tech_type |-> Get(item, "tech_type", None),
            parts_type |-> Get(item, "parts_type", None),
            specialized_type |-> Get(item, "specialized_type", None),
            construction_material_type |-> Get(item, "construction_material_type", None),
            consumption_goods_type |-> Get(item, "consumption_goods_type", None),
            metadata |-> VDict(<<>>, _build_metadata(item)) ])

\* the record built from the item (a mapping) and its cleaned title
NormalizedRecord(item, clean_title) ==
    RecordOf(item, _smart_title_case(clean_title),
             _deep_clean_description(Get(item, "description", VStr(<<>>)), TRUE))

\* the item is a dict value; the result is the dict of the record, or the
\* exception raised by .lower() of a source or .startswith() of an
\* external_id that is not a str
normalize(item) ==
    LET source      == Get(item.d, "source", VStr(<<>>))
        external_id == Get(item.d, "external_id", VStr(<<>>))
        raw_title   == Get(item.d, "title", VStr(<<>>))
        from_id     == source.t = "str"
                       /\ Lower(source.s) = <<"m","e","g","a","l","e","i","l","o","e","s">>
                       /\ Truthy(external_id)
    IN  IF source.t # "str" THEN Raised("AttributeError")
        ELSE IF from_id /\ external_id.t # "str" THEN Raised("AttributeError")
        ELSE NormalizedRecord(item.d,
                 IF from_id THEN _extract_title_from_external_id(external_id.s)
                 ELSE _clean_title(raw_title, TRUE))

\* the list of the records, or the exception of the first item that raises
ListOrRaised(results) ==
    LET raising == {i \in 1..Len(results) : results[i].t = "raised"}
    IN  IF raising # {} THEN results[SetMin(raising)]
        ELSE [t |-> "list", s |-> <<>>, n |-> Len(results), d |-> results]

normalize_items(items) == ListOrRaised([i \in 1..Len(items) |-> normalize(items[i])])

(***************************************************************************)
(* SodreScraperCategorizado: the lot normaliser and its field parsers.     *)
(***************************************************************************)
VBool(b) ==
    [t |-> "bool", s |-> IF b THEN <<"T","r","u","e">> ELSE <<"F","a","l","s","e">>, n |-> IF b THEN 1 ELSE 0, d |-> NoItems]

\* a list whose str() is s and whose elements are elems
VListOf(s, elems) == [t |-> "list", s |-> s, n |-> Len(elems), d |-> elems]

self_source == <<"s","o","d","r","e">>

self_base_url == <<"h","t","t","p","s",":","/","/","w","w","w",".","s","o","d","r","e","s","a","n","t","o","r","o",".","c","o","m",".","b","r">>

\* self.stats after construction
InitialStats == [total_scraped |-> 0, duplicates |-> 0, with_bids |-> 0, errors |-> 0]

\* the text of a category name
CategoryText(category) ==
    CASE category = "Imóveis" -> <<"I","m","ó","v","e","i","s">>
      [] category = "Veículos" -> <<"V","e","í","c","u","l","o","s">>
      [] category = "Máquinas & Equipamentos" -> <<"M","á","q","u","i","n","a","s"," ","&"," ","E","q","u","i","p","a","m","e","n","t","o","s">>
      [] category = "Tecnologia" -> <<"T","e","c","n","o","l","o","g","i","a">>
      [] category = "Casa & Consumo" -> <<"C","a","s","a"," ","&"," ","C","o","n","s","u","m","o">>
      [] category = "Industrial & Empresarial" -> <<"I","n","d","u","s","t","r","i","a","l"," ","&"," ","E","m","p","r","e","s","a","r","i","a","l">>
      [] category = "Materiais & Sucatas" -> <<"M","a","t","e","r","i","a","i","s"," ","&"," ","S","u","c","a","t","a","s">>
      [] category = "Arte & Colecionáveis" -> <<"A","r","t","e"," ","&"," ","C","o","l","e","c","i","o","n","á","v","e","i","s">>
      [] category = "Outros" -> <<"O","u","t","r","o","s">>

\* a or b
OrElse(a, b) == IF Truthy(a) THEN a ELSE b

\* result if result else None
ResultOrNone(result) == IF result # <<>> THEN VStr(result) ELSE None

_safe_str(value) == IF value.t = "None" THEN None ELSE ResultOrNone(Strip(PyStr(value)))

\* the value of the try body, or None when it raised
ValueOrNone(r) == IF r.t = "raised" THEN None ELSE r

_parse_numeric(value) == IF value.t = "None" THEN None ELSE ValueOrNone(FloatOf(value))

\* _parse_int of the scraper
_parse_int_lot(value) == IF value.t = "None" THEN None ELSE ValueOrNone(IntOf(value))

_parse_image(value) ==
    IF ~Truthy(value) THEN None
    ELSE IF value.t = "str" THEN value
    ELSE IF value.t = "list" /\ value.n > 0 THEN value.d[1]
    ELSE None

\* repr of a list of str without quotes or backslashes in them
ListRepr(texts) ==
    <<"[">> \o Join(<<",", " ">>, [i \in 1..Len(texts) |-> <<"'">> \o texts[i] \o <<"'">>]) \o <<"]">>

\* the list of the given texts
StrList(texts) == VListOf(ListRepr(texts), [i \in 1..Len(texts) |-> VStr(texts[i])])

\* str(opt) of the truthy elements
TruthyTexts(elems) ==
    LET kept == SelectSeq(elems, Truthy)
    IN  [i \in 1..Len(kept) |-> PyStr(kept[i])]

_parse_optionals(value) ==
    IF ~Truthy(value) THEN None
    ELSE IF value.t = "list" THEN StrList(TruthyTexts(value.d))
    ELSE IF value.t = "str" THEN StrList(<<value.s>>)
    ELSE None

\* a number of two digits, space-padded when padded is set, or of one digit,
\* at position p of the text, as the pattern of a strptime directive takes
\* it: n is the number and next the position after it, 0 when none is there
\* or the number is outside lo..hi
NumberAt(text, p, lo, hi, padded) ==
    LET c1  == At(text, p)
        c2  == At(text, p + 1)
        two == 10 * DigitVal(c1) + DigitVal(c2)
        one == IF padded THEN DigitVal(c2) ELSE DigitVal(c1)
    IN  IF IsDigit(c1) /\ IsDigit(c2) /\ two >= lo /\ two <= hi
        THEN [n |-> two, next |-> p + 2]
        ELSE IF IsDigit(c1) /\ DigitVal(c1) >= lo
        THEN [n |-> DigitVal(c1), next |-> p + 1]
        ELSE IF padded /\ c1 = " " /\ IsDigit(c2) /\ DigitVal(c2) >= 1
        THEN [n |-> one, next |-> p + 2]
        ELSE [n |-> 0, next |-> 0]

IsLeap(year) == year % 4 = 0 /\ (year % 100 # 0 \/ year % 400 = 0)

DaysIn(year, month) ==
    IF month = 2 THEN (IF IsLeap(year) THEN 29 ELSE 28)
    ELSE IF month \in {4, 6, 9, 11} THEN 30
    ELSE 31

\* '%02d' % n
Pad2(n) == IF n < 10 THEN <<"0">> \o DigitsOf(n) ELSE DigitsOf(n)

\* datetime.strptime(text, '%Y-%m-%d %H:%M:%S').strftime('%Y-%m-%dT%H:%M:%S+00:00'),
\* or None when strptime raises (the year is printed without leading zeros)
Strptime(text) ==
    LET year  == DigitsValue(SubSeq(text, 1, 4))
        mo    == NumberAt(text, 6, 1, 12, FALSE)
        day   == NumberAt(text, mo.next + 1, 1, 31, TRUE)
        gap   == SkipWhile(IsSpace, text, day.next)
        hour  == NumberAt(text, gap, 0, 23, FALSE)
        min   == NumberAt(text, hour.next + 1, 0, 59, FALSE)
        sec   == NumberAt(text, min.next + 1, 0, 61, FALSE)
    IN  IF /\ Len(text) >= 4
           /\ \A i \in 1..4 : IsDigit(text[i])
           /\ At(text, 5) = "-"
           /\ mo.next > 0 /\ At(text, mo.next) = "-"
           /\ day.next > 0 /\ gap > day.next
           /\ hour.next > 0 /\ At(text, hour.next) = ":"
           /\ min.next > 0 /\ At(text, min.next) = ":"
           /\ sec.next = Len(text) + 1
           /\ year >= 1 /\ day.n <= DaysIn(year, mo.n) /\ sec.n <= 59
        THEN VStr(DigitsOf(year) \o <<"-">> \o Pad2(mo.n) \o <<"-">> \o Pad2(day.n) \o <<"T">>
                  \o Pad2(hour.n) \o <<":">> \o Pad2(min.n) \o <<":">> \o Pad2(sec.n)
                  \o <<"+","0","0",":","0","0">>)
        ELSE None

\* the text after value.replace('Z', '+00:00')
DatetimeOf(text) == IF In(<<"T">>, text) THEN VStr(text) ELSE Strptime(text)

_parse_datetime(value) ==
    IF ~Truthy(value) \/ value.t # "str" THEN None
    ELSE DatetimeOf(Replace(<<"Z">>, <<"+","0","0",":","0","0">>, value.s))

lot_extra_fields == <<"segment_base", "search_terms">>

\* _build_metadata of the scraper: the lot is the mapping of a dict, the
\* result the mapping of the metadata
_build_metadata_lot(lot) ==
    LET set == {lot_extra_fields[i] : i \in 1..Len(lot_extra_fields)}
    IN  [field \in {f \in set : Truthy(Get(lot, f, None))} |-> lot[field]]

\* lot.get(key)
LotGet(lot, key) == Get(lot, key, None)

\* the item of _normalize_lot before its None values are removed
LotItem(lot, subcategory) ==
    [ source |-> VStr(self_source),
      external_id |-> _safe_str(OrElse(LotGet(lot, "id"), LotGet(lot, "lot_id"))),
      categoria |-> VStr(CategoryText(_categorize_item(subcategory))),
      title |-> _safe_str(OrElse(LotGet(lot, "lot_name"), LotGet(lot, "name"))),
      description |-> _safe_str(OrElse(LotGet(lot, "lot_description"), LotGet(lot, "description"))),
      image_url |-> _parse_image(OrElse(LotGet(lot, "lot_pictures"), LotGet(lot, "image_url"))),
      url |-> IF Truthy(LotGet(lot, "id"))
              THEN VStr(self_base_url \o <<"/","l","o","t","e","/">> \o PyStr(LotGet(lot, "id")))
              ELSE None,
      auction_date |-> _parse_datetime(LotGet(lot, "lot_auction_date_init")),
      auction_end_date |-> _parse_datetime(LotGet(lot, "lot_auction_date_end")),
      auction_type |-> _safe_str(OrElse(LotGet(lot, "auction_type"), LotGet(lot, "lot_auction_type"))),
      auctioneer |-> VStr(<<"S","o","d","r","é"," ","S","a","n","t","o","r","o">>),
      current_bid |-> _parse_numeric(LotGet(lot, "lot_current_value")),
      minimum_bid |-> _parse_numeric(LotGet(lot, "lot_minimum_bid")),
      estimated_value |-> _parse_numeric(LotGet(lot, "lot_estimated_value")),
      initial_value |-> _parse_numeric(LotGet(lot, "lot_initial_value")),
      status |-> _safe_str(OrElse(LotGet(lot, "lot_status"), LotGet(lot, "status"))),
      is_active |-> Get(lot, "is_active", VBool(TRUE)),
      city |-> _safe_str(OrElse(LotGet(lot, "lot_city"), LotGet(lot, "city"))),
      state |-> _safe_str(OrElse(LotGet(lot, "lot_state"), LotGet(lot, "state"))),
      vehicle_brand |-> _safe_str(LotGet(lot, "lot_brand")),
      vehicle_model |-> _safe_str(LotGet(lot, "lot_model")),
      vehicle_year |-> _parse_int_lot(LotGet(lot, "lot_year")),
      vehicle_color |-> _safe_str(LotGet(lot, "lot_color")),
      vehicle_km |-> _parse_int_lot(LotGet(lot, "lot_km")),
      vehicle_plate |-> _safe_str(LotGet(lot, "lot_plate")),
      vehicle_fuel |-> _safe_str(LotGet(lot, "lot_fuel")),
      lot_optionals |-> _parse_optionals(LotGet(lot, "lot_optionals")),
      lot_number |-> _safe_str(LotGet(lot, "lot_number")),
      lot_judicial_process |-> _safe_str(LotGet(lot, "lot_judicial_process")),
      lot_judicial_vara |-> _safe_str(LotGet(lot, "lot_judicial_vara")),
      lot_judicial_district |-> _safe_str(LotGet(lot, "lot_judicial_district")),
      lot_judicial_judge |-> _safe_str(LotGet(lot, "lot_judicial_judge")),
      tj_praca_value |-> _parse_numeric(LotGet(lot, "tj_praca_value")),
      tj_praca_discount |-> _parse_numeric(LotGet(lot, "tj_praca_discount")),
      lot_neighborhood |-> _safe_str(LotGet(lot, "lot_neighborhood")),
      lot_street |-> _safe_str(LotGet(lot, "lot_street")),
      lot_dormitories |-> _parse_int_lot(LotGet(lot, "lot_dormitories")),
      lot_useful_area |-> _parse_numeric(LotGet(lot, "lot_useful_area")),
      lot_total_area |-> _parse_numeric(LotGet(lot, "lot_total_area")),
      lot_suites |-> _parse_int_lot(LotGet(lot, "lot_suites")),
      lot_subcategory |-> subcategory,
      lot_type_name |-> _safe_str(LotGet(lot, "lot_type_name")),
      metadata |-> VDict(<<>>, _build_metadata_lot(lot)) ]

\* {k: v for k, v in item.items() if v is not None}
WithoutNone(item) == [k \in {key \in DOMAIN item : item[key].t # "None"} |-> item[k]]

\* the lot is the mapping of a dict; the result is the dict of the item
_normalize_lot(lot) ==
    VDict(<<>>, WithoutNone(LotItem(lot,
        _safe_str(OrElse(LotGet(lot, "lot_subcategory"), LotGet(lot, "subcategory"))))))

\* the condition under which _normalize_lot counts the lot in stats['with_bids']
HasBids(lot) == Truthy(LotGet(lot, "lot_has_bid")) \/ Truthy(LotGet(lot, "lot_auction_date_init"))

\* self.stats after _normalize_lot(lot)
StatsAfterLot(stats_, lot) ==
    IF HasBids(lot) THEN [stats_ EXCEPT !.with_bids = @ + 1] ELSE stats_

(***************************************************************************)
(* The calls explored.                                                     *)
(***************************************************************************)
CaseVariants(s) == {s, Lower(s), Upper(s), Capitalize(s)}

Padded(s) == {Spaces(l) \o s \o Spaces(r) : l \in 0..MaxPad, r \in 0..MaxPad}

UnseenLabels ==
    {<<"a","l","g","o"," ","t","o","t","a","l","m","e","n","t","e"," ","n","o","v","o">>, <<"a","p","a","r","t","a","m","e","n","t","o"," ","r","e","s","i","d","e","n","c","i","a","l">>, <<"c","a","s","a"," ","e"," ","c","o","n","s","t","r","u","ç","ã","o">>,
     <<"l","o","t","e"," ","1","2">>, <<"x","y","z">>}

\* the subcategory labels handed to _categorize_item: absent, empty, blank,
\* every table key and every fallback substring in several spellings, and
\* labels that hold the substrings of two fallback rules
CatInputs ==
    {None, VStr(<<>>)}
    \cup {VStr(Spaces(n)) : n \in 1..(MaxPad + 1)}
    \cup {VStr(p) : p \in UNION {Padded(v) : v \in UNION {CaseVariants(k) : k \in MappingKeys}}}
    \cup {VStr(p) : p \in UNION {Padded(v) : v \in UNION {CaseVariants(k) : k \in UnseenLabels}}}
    \cup {VStr(v) : v \in UNION {CaseVariants(w) : w \in FallbackWords}}
    \cup {VStr(a \o <<" ">> \o b) : a \in FallbackWords, b \in FallbackWords}

InvalidStates == {<<"X","X">>, <<"S">>, <<"S","P","X">>, <<"S"," ","P">>, <<"S","ã","o"," ","P","a","u","l","o">>}

\* the values handed to _validate_state: absent, empty, not a string, every
\* valid code and some invalid ones in several spellings
StateInputs ==
    {None, VStr(<<>>), VInt(0), VInt(5), VList(<<"[","'","S","P","'","]">>, 1), VList(<<"[","]">>, 0)}
    \cup {VStr(p) : p \in UNION {Padded(v) : v \in UNION {CaseVariants(VALID_STATES[i]) : i \in 1..Len(VALID_STATES)}}}
    \cup {VStr(p) : p \in UNION {Padded(v) : v \in UNION {CaseVariants(k) : k \in InvalidStates}}}

SampleWords == {<<"d","e">>, <<"D","E">>, <<"D","a">>, <<"c","a","s","a">>, <<"P","R","A","I","A">>, <<"T","O","Y","O","T","A">>, <<"X","5">>, <<"i","P","h","o","n","e">>, <<"2","ª">>}

\* the texts of n sample words separated by one space
RECURSIVE TextsOf(_)
TextsOf(n) ==
    IF n = 1 THEN SampleWords
    ELSE {t \o <<" ">> \o w : t \in TextsOf(n - 1), w \in SampleWords}

\* the texts handed to _smart_title_case: empty, blank, and every text of up
\* to MaxWords sample words, some with surrounding and doubled whitespace
TitleCaseInputs ==
    {<<>>, <<" ">>}
    \cup UNION {TextsOf(n) : n \in 1..MaxWords}
    \cup {<<" ">> \o w \o <<" "," ">> \o v \o <<" ">> : w \in SampleWords, v \in SampleWords}

TitlePrefixes == {<<>>, <<"L","O","T","E"," ","5"," ","-"," ">>, <<"l","o","t","e"," ","1","2",":"," ">>, <<"L","O","T","E"," ","5"," ","-"," ","L","O","T","E"," ","6"," ","-"," ">>}

TitleBodies ==
    {<<"C","a","s","a"," ","n","a"," ","P","r","a","i","a">>, <<"<","b",">","C","a","r","r","o","<","/","b",">"," ","&","a","m","p",";"," ","M","o","t","o">>, <<"a","p","a","r","t","a","m","e","n","t","o","_","n","o","v","o"," "," ","D","E"," ","l","u","x","o">>,
     <<"R","$"," ","1","0","0">>, <<>>}

TitleSuffixes ==
    {<<>>, <<","," ","2","0","%"," ","a","b","a","i","x","o"," ","n","a"," ","2","ª"," ","p","r","a","ç","a">>, <<" ","2","ª"," ","p","r","a","ç","a">>, <<" ","R","$"," ","1",".","5","0","0",",","0","0">>,
     <<","," ","P","l","a","c","a"," ","F","I","N","A","L"," ","5"," ","(","S","P",")">>, <<",">>}

\* a title longer than 200 characters
LongTitle == [i \in 1..201 |-> IF i % 7 = 0 THEN " " ELSE "a"]

\* the titles handed to _clean_title and, in a record, to normalize: absent,
\* empty, blank, not a string, too long, and every body with every lot
\* prefix and every trailing round phrase, amount, plate and comma
TitleInputs ==
    {None, VStr(<<>>), VStr(<<" ">>), VInt(5), VStr(LongTitle)}
    \cup {VStr(a \o b \o c) : a \in TitlePrefixes, b \in TitleBodies, c \in TitleSuffixes}

DescBodies == {<<>>, <<"a","b">>, <<"a","b","c","d">>, <<"a","b","c","d","e">>, <<"C","a","s","a"," ","c","o","m"," ","3"," ","q","u","a","r","t","o","s">>}

\* a body as it stands, in tags, in a paragraph, and followed by a line
\* break, an entity, an e-mail address, a phone number and a URL
DescForms(b) ==
    {b, <<"<","b",">">> \o b \o <<"<","/","b",">">>, <<"<","p",">">> \o b \o <<"<","/","p",">">>,
     b \o <<"<","b","r","/",">","&","#","3","9",";">>, b \o <<" ","a","@","b",".","c">>, b \o <<" ","(","1","1",")"," ","9","1","2","3","4","-","5","6","7","8"," ","h","t","t","p",":","/","/","x",".","y","/","z">>}

\* a description longer than 150 characters
LongDesc == [i \in 1..160 |-> IF i % 9 = 0 THEN " " ELSE "x"]

\* a description whose 150th character is a blank
LongDescBlank == [i \in 1..160 |-> IF i % 10 = 0 THEN " " ELSE "x"]

\* the descriptions handed to _deep_clean_description
DescInputs ==
    {None, VStr(<<>>), VInt(7), VInt(12345), VStr(LongDesc), VStr(LongDescBlank)}
    \cup {VStr(p) : p \in UNION {Padded(f) : f \in UNION {DescForms(b) : b \in DescBodies}}}

ItemKeys ==
    {"source", "external_id", "title", "description", "value", "value_text",
     "auction_round", "discount_percentage", "first_round_value", "first_round_date",
     "city", "state", "address", "auction_date", "days_remaining", "auction_type",
     "auction_name", "store_name", "lot_number", "total_visits", "total_bids",
     "total_bidders", "link", "vehicle_type", "property_type", "animal_type",
     "appliance_type", "tech_type", "parts_type", "specialized_type",
     "construction_material_type", "consumption_goods_type", "metadata",
     "raw_category", "condition", "brand", "model", "year", "quantity", "unit_price",
     "foo"}

\* values a field can hold when the record is malformed
OddValues ==
    {None, VStr(<<>>), VStr(<<" ">>), VStr(<<"n","o","t"," ","a"," ","n","u","m","b","e","r">>), VInt(0), VInt(5), VInt(-5),
     VList(<<"[","]">>, 0), VList(<<"[","'","S","P","'","]">>, 1), VDict(<<"{","}">>, NoItems),
     VDict(<<"{","'","b","r","a","n","d","'",":"," ","'","F","i","a","t","'","}">>, [brand |-> VStr(<<"F","i","a","t">>)])}

Item(mapping) == VDict(<<>>, mapping)

\* the raw dates handed to _parse_date: absent, blank, the two forms with a
\* time, the date alone, other formats, a well-formed date followed by a
\* timezone or by other characters or surrounded by blanks, and not a str
DateInputs ==
    {None, VInt(20260112), VList(<<"[","]">>, 0)}
    \cup {VStr(t) : t \in {<<>>, <<" ">>, <<"2","0","2","6","-","0","1","-","1","2"," ","0","9",":","3","0",":","0","0">>, <<"2","0","2","6","-","0","1","-","1","2","T","0","9",":","3","0",":","0","0">>, <<"2","0","2","6","-","0","1","-","1","2">>,
                           <<"1","2","/","0","1","/","2","0","2","6">>, <<"2","0","2","6","-","0","1","-","1","2","x","y","z">>, <<"2","0","2","6","-","0","1","-","1","2"," ","0","9",":","3","0",":","0","0","-","0","3">>,
                           <<" ","2","0","2","6","-","0","1","-","1","2"," ">>, <<"2","0","2","6","-","1","-","1","2">>, <<"2","0","2","6","-","1","3","-","4","5">>, <<"x","2","0","2","6","-","0","1","-","1","2">>,
                           <<"2","0","2","6","-","0","1","-","1","2"," ","9",":","3","0">>, <<"2","0","2","6","/","0","1","/","1","2">>, <<"2","0","2","6","-","0","1","-","1">>}}

\* the values of the 'metadata' field: absent from the record (no key), None,
\* not a mapping, and mappings with and without an allowlisted key
MetadataValues ==
    {None, VStr(<<"x">>), VDict(<<"{","}">>, NoItems),
     VDict(<<"{","'","b","r","a","n","d","'",":"," ","'","F","i","a","t","'","}">>, [brand |-> VStr(<<"F","i","a","t">>)]),
     VDict(<<"{","'","f","o","o","'",":"," ","1",","," ","'","c","o","l","o","r","'",":"," ","'","r","e","d","'","}">>, [foo |-> VInt(1), color |-> VStr(<<"r","e","d">>)])}

\* the records of the metadata rule: a 'metadata' value or none, with and
\* without the top-level fields brand (absent, None or a text), year (a
\* value that is falsy but not None) and foo (outside the allowlist)
MetadataItems ==
    {Item([k \in keys |->
              CASE k = "metadata" -> m
                [] k = "brand" -> b
                [] k = "year" -> VInt(0)
                [] OTHER -> VStr(<<"b","a","r">>)]) :
        keys \in SUBSET {"metadata", "brand", "year", "foo"},
        m \in MetadataValues, b \in {None, VStr(<<"T","o","y","o","t","a">>)}}

CountKeys == {"total_visits", "total_bids", "total_bidders"}

\* the raw values of a counter and of days_remaining: numbers and texts of
\* numbers, negative ones, floats, and values int() does not take
CountInputs ==
    {None, VInt(0), VInt(3), VInt(-5), VFloat(2900), VFloat(-2900), VFloat(-500),
     VNan, VInf, VList(<<"[","1","]">>, 1)}
    \cup {VStr(t) : t \in {<<"3">>, <<"-","5">>, <<" ","7"," ">>, <<"+","4">>, <<"2",".","9">>, <<"a","b","c">>, <<>>}}

\* the raw values handed to _parse_value: absent, numbers and texts of
\* numbers, negative ones, ties of the rounding, texts that are no number,
\* and the texts float() reads as not-a-number and as the infinities
ValueInputs ==
    {None, VInt(0), VInt(5), VInt(-5), VFloat(2675), VFloat(125), VFloat(-1),
     VList(<<"[","1","]">>, 1), VDict(<<"{","}">>, NoItems)}
    \cup {VStr(t) : t \in {<<"1","5","0","0",".","5","0">>, <<"-","5">>, <<"n","o","t"," ","a"," ","n","u","m","b","e","r">>, <<" ","1","2"," ">>, <<"0",".","0","0","5">>, <<"0",".","0","1","5">>,
                           <<"2",".","6","7","5">>, <<".","5">>, <<"7",".">>, <<"+","3">>, <<"1",",","5">>, <<>>, <<"n","a","n">>, <<"N","a","N">>, <<"-","n","a","n">>,
                           <<"i","n","f">>, <<"-","i","n","f">>, <<"I","n","f","i","n","i","t","y">>}}

ExternalIds ==
    {VStr(<<"m","e","g","a","l","e","i","l","o","e","s","_","c","a","s","a","-","n","a","-","p","r","a","i","a","-","j","1","2","3","4","5">>), VStr(<<"a","p","t","o","_","2","-","q","u","a","r","t","o","s","-","1","2","3","4","5","6">>),
     VStr(<<>>), VInt(5)}

\* a record as the scraper of another site hands it over
FullItem ==
    Item([source |-> VStr(<<"s","o","d","r","e">>), external_id |-> VStr(<<" ","1","2","3"," ">>),
          title |-> VStr(<<"L","O","T","E"," ","5"," ","-"," ","C","a","s","a"," ","n","a"," ","P","r","a","i","a",","," ","2","0","%"," ","a","b","a","i","x","o"," ","n","a"," ","2","ª"," ","p","r","a","ç","a">>),
          description |-> VStr(<<"<","p",">","C","a","s","a"," ","c","o","m"," ","3"," ","q","u","a","r","t","o","s","<","/","p",">">>),
          value |-> VStr(<<"1","5","0","0",".","5","0">>), city |-> VStr(<<"S","ã","o"," ","P","a","u","l","o","/","S","P">>),
          state |-> VStr(<<"s","p">>), auction_date |-> VStr(<<"2","0","2","6","-","0","1","-","1","2"," ","0","9",":","3","0",":","0","0">>),
          days_remaining |-> VInt(-1), total_bids |-> VStr(<<"3">>),
          brand |-> VStr(<<"T","o","y","o","t","a">>), foo |-> VStr(<<"b","a","r">>),
          metadata |-> VDict(<<"{","'","b","r","a","n","d","'",":"," ","'","F","i","a","t","'","}">>, [brand |-> VStr(<<"F","i","a","t">>)])])

\* the raw texts of city, address and the other text fields: a city with its
\* state after '/', '-' or ',', one that begins with the separator, a
\* separator alone, and a text with blanks and control characters
TextInputs ==
    {VStr(<<"S","ã","o"," ","P","a","u","l","o","/","S","P">>), VStr(<<"r","i","o"," ","d","e"," ","j","a","n","e","i","r","o"," ","-"," ","R","J">>), VStr(<<"C","a","m","p","i","n","a","s",","," ","S","P">>),
     VStr(<<"/","S","P">>), VStr(<<"-","S","P">>), VStr(<<" ","-"," ","S","P">>), VStr(<<"/">>), VStr(<<"-">>), VStr(<<",">>),
     VStr(<<" "," ","r","u","a"," "," ","D","A","S"," ","f","l","o","r","e","s",","," "," "," ","1","0"," ">>), VStr(<<"R","$"," ","1","0","0"," ","R","$"," ","5">>)}

TextKeys ==
    {"title", "city", "address", "description", "auction_type", "auction_name",
     "store_name", "lot_number"}

\* the raw records handed to normalize: the empty mapping, every field alone
\* with every odd value, every title, every description, the records of the
\* site whose title comes from the external_id, and a full record
NormalizeInputs ==
    {Item(NoItems), FullItem}
    \cup {Item([k \in {key} |-> v]) : key \in ItemKeys, v \in OddValues}
    \cup {Item([title |-> t]) : t \in TitleInputs}
    \cup MetadataItems
    \cup {Item([auction_date |-> v]) : v \in DateInputs}
    \cup {Item([k \in {key} |-> v]) : key \in CountKeys \cup {"days_remaining"}, v \in CountInputs}
    \cup {Item([k \in {key} |-> v]) : key \in {"value", "first_round_value"}, v \in ValueInputs}
    \cup {Item([description |-> d]) : d \in DescInputs}
    \cup {Item([k \in {key} |-> v]) : key \in TextKeys, v \in TextInputs}
    \cup {Item([source |-> VStr(s), external_id |-> e]) :
              s \in {<<"m","e","g","a","l","e","i","l","o","e","s">>, <<"M","e","g","a","L","e","i","l","o","e","s">>, <<"s","o","d","r","e">>}, e \in ExternalIds}

BatchItems == {Item(NoItems), FullItem, Item([source |-> None, title |-> VStr(<<"C","a","s","a">>)])}

\* the lists handed to normalize_items
BatchInputs ==
    {<<>>} \cup {<<a>> : a \in BatchItems} \cup {<<a, b>> : a \in BatchItems, b \in BatchItems}

\* the identifiers of a raw lot: absent (no key), None, numbers, and texts
\* with and without surrounding blanks, empty and in mixed case
LotIds == {None, VInt(123), VInt(0), VStr(<<"1","2","3">>), VStr(<<" ","7"," ">>), VStr(<<>>), VStr(<<"A","b","C">>)}

\* the raw lots handed to _normalize_lot: with 'id' and 'lot_id' or without,
\* with a subcategory or without, and with or without a bid or an opening date
LotInputs ==
    {Item([k \in keys |->
              CASE k = "id" -> id
                [] k = "lot_id" -> VStr(<<"x","9">>)
                [] k = "lot_subcategory" -> VStr(<<" ","C","a","r","r","o","s"," ">>)
                [] k = "lot_has_bid" -> bid
                [] k = "lot_auction_date_init" -> VStr(<<"2","0","2","6","-","0","1","-","1","2"," ","0","9",":","3","0",":","0","0">>)
                [] k = "segment_base" -> VStr(<<"v","e","i","c","u","l","o","s">>)
                [] OTHER -> VStr(<<"b","a","r">>)]) :
        keys \in SUBSET {"id", "lot_id", "lot_subcategory", "lot_has_bid",
                         "lot_auction_date_init", "segment_base"},
        id \in LotIds, bid \in {VBool(TRUE), VBool(FALSE)}}

Calls ==
    {[fn |-> "_categorize_item", arg |-> subcategory] : subcategory \in CatInputs}
    \cup {[fn |-> "_validate_state", arg |-> state] : state \in StateInputs}
    \cup {[fn |-> "_smart_title_case", arg |-> VStr(text)] : text \in TitleCaseInputs}
    \cup {[fn |-> "_clean_title", arg |-> title] : title \in TitleInputs}
    \cup {[fn |-> "_deep_clean_description", arg |-> description] : description \in DescInputs}
    \cup {[fn |-> "_parse_value", arg |-> value] : value \in ValueInputs}
    \cup {[fn |-> "_parse_date", arg |-> date_str] : date_str \in DateInputs}
    \cup {[fn |-> "normalize", arg |-> item] : item \in NormalizeInputs}
    \cup {[fn |-> "normalize_items", arg |-> items] : items \in BatchInputs}
    \cup {[fn |-> "_normalize_lot", arg |-> lot] : lot \in LotInputs}

Init ==
    /\ call \in Calls
    /\ pc = "call"
    /\ ret = None
    /\ stats = InitialStats
    /\ local = <<>>

Categorize ==
    /\ pc = "call"
    /\ call.fn = "_categorize_item"
    /\ ret' = _categorize_item(call.arg)
    /\ pc' = "return"
    /\ UNCHANGED <<call, stats, local>>

ValidateState ==
    /\ pc = "call"
    /\ call.fn = "_validate_state"
    /\ ret' = _validate_state(call.arg)
    /\ pc' = "return"
    /\ UNCHANGED <<call, stats, local>>

SmartTitleCase ==
    /\ pc = "call"
    /\ call.fn = "_smart_title_case"
    /\ ret' = VStr(_smart_title_case(call.arg.s))
    /\ pc' = "return"
    /\ UNCHANGED <<call, stats, local>>

CleanTitle ==
    /\ pc = "call"
    /\ call.fn = "_clean_title"
    /\ ret' = VStr(_clean_title(call.arg, TRUE))
    /\ pc' = "return"
    /\ UNCHANGED <<call, stats, local>>

DeepCleanDescription ==
    /\ pc = "call"
    /\ call.fn = "_deep_clean_description"
    /\ ret' = _deep_clean_description(call.arg, TRUE)
    /\ pc' = "return"
    /\ UNCHANGED <<call, stats, local>>

ParseValue ==
    /\ pc = "call"
    /\ call.fn = "_parse_value"
    /\ ret' = _parse_value(call.arg)
    /\ pc' = "return"
    /\ UNCHANGED <<call, stats, local>>

ParseDate ==
    /\ pc = "call"
    /\ call.fn = "_parse_date"
    /\ ret' = _parse_date(call.arg)
    /\ pc' = "return"
    /\ UNCHANGED <<call, stats, local>>

Normalize ==
    /\ pc = "call"
    /\ call.fn = "normalize"
    /\ ret' = normalize(call.arg)
    /\ pc' = "return"
    /\ UNCHANGED <<call, stats, local>>

NormalizeItems ==
    /\ pc = "call"
    /\ call.fn = "normalize_items"
    /\ ret' = normalize_items(call.arg)
    /\ pc' = "return"
    /\ UNCHANGED <<call, stats, local>>

NormalizeLot ==
    /\ pc = "call"
    /\ call.fn = "_normalize_lot"
    /\ ret' = _normalize_lot(call.arg.d)
    /\ stats' = StatsAfterLot(stats, call.arg.d)
    /\ pc' = "return"
    /\ UNCHANGED <<call, local>>

Next ==
    \/ Categorize
    \/ ValidateState
    \/ SmartTitleCase
    \/ CleanTitle
    \/ DeepCleanDescription
    \/ ParseValue
    \/ ParseDate
    \/ Normalize
    \/ NormalizeItems
    \/ NormalizeLot

Spec == Init /\ [][Next]_vars

(***************************************************************************)
(* Concurrent invocations on one scraper and one normalizer instance.  Each *)
(* thread runs one call on its own record; call, pc and ret are indexed by  *)
(* thread, stats is the shared self.stats, and local[t] holds the value     *)
(* thread t loaded for `self.stats['with_bids'] += 1` together with the     *)
(* shared locations it has read and written.  The augmented assignment is   *)
(* a load, an add and a store, and another thread can run between them.     *)
(***************************************************************************)
MaxThreads == 2

Threads == 1..MaxThreads

\* the calls one thread makes: lots with and without a bid, raw items and
\* subcategory labels
ThreadCalls ==
    {[fn |-> "_normalize_lot", arg |-> Item([k \in keys |->
              CASE k = "id" -> id
                [] k = "lot_has_bid" -> VBool(TRUE)
                [] OTHER -> VStr(<<" ","C","a","r","r","o","s"," ">>)])] :
        keys \in SUBSET {"id", "lot_has_bid", "lot_subcategory"},
        id \in {VInt(123), VStr(<<"A","b","C">>)}}
    \cup {[fn |-> "normalize", arg |-> Item([k \in {"title"} |-> VStr(title)])] :
             title \in {<<"C","a","s","a"," ","n","a"," ","P","r","a","i","a">>, <<"L","O","T","E"," ","5"," ","-"," ","C","a","s","a">>}}
    \cup {[fn |-> "_categorize_item", arg |-> subcategory] :
             subcategory \in {None, VStr(<<" ","C","a","r","r","o","s"," ">>)}}

InitThreads ==
    /\ call \in {c \in [Threads -> ThreadCalls] : \A t, u \in Threads : t # u => c[t] # c[u]}
    /\ pc = [t \in Threads |-> "call"]
    /\ ret = [t \in Threads |-> None]
    /\ stats = InitialStats
    /\ local = [t \in Threads |-> [with_bids |-> 0, reads |-> {}, writes |-> {}]]

\* thread t moves to position `to` having read the shared locations `read`
Reading(t, read, to) ==
    /\ pc' = [pc EXCEPT ![t] = to]
    /\ local' = [local EXCEPT ![t].reads = @ \cup read]

TCategorizeItem(t) ==
    /\ pc[t] = "call"
    /\ call[t].fn = "_categorize_item"
    /\ ret' = [ret EXCEPT ![t] = _categorize_item(call[t].arg)]
    /\ Reading(t, {"category_mapping"}, "return")
    /\ UNCHANGED <<call, stats>>

TNormalize(t) ==
    /\ pc[t] = "call"
    /\ call[t].fn = "normalize"
    /\ ret' = [ret EXCEPT ![t] = normalize(call[t].arg)]
    /\ Reading(t, {"VALID_STATES", "LOWERCASE_WORDS"}, "return")
    /\ UNCHANGED <<call, stats>>

\* subcategory and categoria_principal of the lot
TClassifyLot(t) ==
    /\ pc[t] = "call"
    /\ call[t].fn = "_normalize_lot"
    /\ Reading(t, {"category_mapping"}, "classified")
    /\ UNCHANGED <<call, ret, stats>>

\* the lot has neither a bid nor an opening date: the counter is not touched
TSkipStats(t) ==
    /\ pc[t] = "classified"
    /\ ~HasBids(call[t].arg.d)
    /\ pc' = [pc EXCEPT ![t] = "counted"]
    /\ UNCHANGED <<call, ret, stats, local>>

\* self.stats['with_bids'] += 1, the load
TLoadStats(t) ==
    /\ pc[t] = "classified"
    /\ HasBids(call[t].arg.d)
    /\ pc' = [pc EXCEPT ![t] = "loaded"]
    /\ local' = [local EXCEPT ![t].with_bids = stats.with_bids,
                              ![t].reads = @ \cup {"stats"}]
    /\ UNCHANGED <<call, ret, stats>>

\* self.stats['with_bids'] += 1, the add and the store
TStoreStats(t) ==
    /\ pc[t] = "loaded"
    /\ stats' = [stats EXCEPT !.with_bids = local[t].with_bids + 1]
    /\ pc' = [pc EXCEPT ![t] = "counted"]
    /\ local' = [local EXCEPT ![t].writes = @ \cup {"stats"}]
    /\ UNCHANGED <<call, ret>>

\* the item of the lot, without its None values
TBuildLot(t) ==
    /\ pc[t] = "counted"
    /\ ret' = [ret EXCEPT ![t] = _normalize_lot(call[t].arg.d)]
    /\ pc' = [pc EXCEPT ![t] = "return"]
    /\ UNCHANGED <<call, stats, local>>

NextThreads ==
    \E t \in Threads :
        \/ TCategorizeItem(t)
        \/ TNormalize(t)
        \/ TClassifyLot(t)
        \/ TSkipStats(t)
        \/ TLoadStats(t)
        \/ TStoreStats(t)
        \/ TBuildLot(t)

SpecThreads == InitThreads /\ [][NextThreads]_vars

(***************************************************************************)
(* SupabaseClient.upsert.  call.arg is the list of records as the caller    *)
(* handed it over; local holds the records of that list as they are now     *)
(* (items), the offset of the next batch (i), the counters of upsert        *)
(* (stats), the slices of items posted so far (posts) and the items_processed *)
(* counter of the client.  The scraper's own stats are not touched.         *)
(***************************************************************************)
batch_size == 500

\* the longest list handed to upsert fills MaxBatches batches
MaxBatches == 3

\* datetime.now().isoformat()
Nows == {<<"2","0","2","6","-","1","1","-","0","5","T","1","2",":","0","0",":","0","0">>, <<"2","0","2","6","-","1","1","-","0","5","T","1","2",":","0","0",":","0","1">>}

\* the timestamps a record can carry before the call: none, updated_at None,
\* empty or set, created_at, and all three
Timestamps ==
    {NoItems,
     [k \in {"updated_at"} |-> None],
     [k \in {"updated_at"} |-> VStr(<<>>)],
     [k \in {"updated_at"} |-> VStr(<<"2","0","2","6","-","0","1","-","0","1","T","0","0",":","0","0",":","0","0">>)],
     [k \in {"created_at"} |-> VStr(<<"2","0","2","6","-","0","1","-","0","1","T","0","0",":","0","0",":","0","0">>)],
     [k \in {"last_scraped_at", "updated_at", "created_at"} |-> VStr(<<"2","0","2","6","-","1","1","-","0","5","T","1","2",":","0","0",":","0","0">>)]}

dict_set(mapping, key, value) ==
    [k \in DOMAIN mapping \cup {key} |-> IF k = key THEN value ELSE mapping[k]]

dict_del(mapping, key) ==
    [k \in DOMAIN mapping \ {key} |-> mapping[k]]

\* the record number n of a list, with the timestamps stamps
UpsertItem(n, stamps) ==
    Item(dict_set(dict_set(stamps, "source", VStr(self_source)), "external_id", VStr(DigitsOf(n))))

\* lists that end on a batch boundary and one record after it
LongLengths == UNION {{b * batch_size, b * batch_size + 1} : b \in 1..(MaxBatches - 1)}

\* the lists handed to upsert: empty, one record, two records, and long lists
UpsertInputs ==
    {<<>>}
    \cup {<<UpsertItem(1, a)>> : a \in Timestamps}
    \cup {<<UpsertItem(1, a), UpsertItem(2, b)>> : a, b \in Timestamps}
    \cup {[n \in 1..len |-> UpsertItem(n, IF n % 2 = 0 THEN NoItems ELSE stamps)] :
             len \in LongLengths,
             stamps \in {a \in Timestamps : DOMAIN a \in {{}, {"created_at"}}}}

\* if 'updated_at' not in item or not item['updated_at']: item['updated_at'] = now
WithUpdatedAt(mapping, now) ==
    IF "updated_at" \notin DOMAIN mapping \/ ~Truthy(mapping["updated_at"])
    THEN dict_set(mapping, "updated_at", now)
    ELSE mapping

\* if 'created_at' in item: del item['created_at']
WithoutCreatedAt(mapping) ==
    IF "created_at" \in DOMAIN mapping THEN dict_del(mapping, "created_at") ELSE mapping

\* the body of the loop that prepares the items
PreparedItem(item, now) ==
    Item(WithoutCreatedAt(WithUpdatedAt(dict_set(item.d, "last_scraped_at", now), now)))

\* what the POST of a batch comes to: 200/201 with a list of one row per item
\* or of no row, with another JSON value or with no JSON; another status; a
\* timeout; another exception
Responses == {"rows", "no rows", "object", "not json", "http error", "timeout", "exception"}

Succeeded(response) == response \in {"rows", "no rows", "object", "not json"}

\* stats['inserted'] += len(response_data) or len(batch)
InsertedBy(response, size) ==
    IF Succeeded(response) /\ response # "no rows" THEN size ELSE 0

ErrorsBy_One(response, size) == IF Succeeded(response) THEN 0 ELSE 1

\* stats['errors'] += len(batch)
ErrorsBy(response, size) == IF Succeeded(response) THEN 0 ELSE size

\* self.items_processed += items_processed in heartbeat_progress
ProcessedBy(response, size) == IF Succeeded(response) THEN size ELSE 0

Min(a, b) == IF a < b THEN a ELSE b

InitUpsert ==
    /\ call \in {[fn |-> "upsert", arg |-> items] : items \in UpsertInputs}
    /\ pc = "call"
    /\ ret = None
    /\ stats = InitialStats
    /\ local = [items |-> call.arg, i |-> 0, posts |-> <<>>, items_processed |-> 0,
                stats |-> [inserted |-> 0, updated |-> 0, errors |-> 0, total |-> 0]]

\* if not items: return
UpsertNothing ==
    /\ pc = "call"
    /\ local.items = <<>>
    /\ ret' = [inserted |-> 0, updated |-> 0, errors |-> 0, total |-> 0]
    /\ pc' = "return"
    /\ UNCHANGED <<call, stats, local>>

\* the timestamps are written into the records of the list
UpsertPrepare ==
    /\ pc = "call"
    /\ local.items # <<>>
    /\ \E now \in Nows :
          local' = [local EXCEPT
                       !.items = [n \in 1..Len(@) |-> PreparedItem(@[n], VStr(now))],
                       !.stats = [@ EXCEPT !.total = Len(local.items)]]
    /\ pc' = "batches"
    /\ UNCHANGED <<call, ret, stats>>

PostedBatch_Retry(response, size) ==
    local' = [local EXCEPT
                 !.posts = Append(@, <<local.i + 1, local.i + size, response>>),
                 !.stats = [@ EXCEPT !.inserted = @ + InsertedBy(response, size),
                                     !.errors = @ + IF Len(local.posts) > 0
                                                       /\ local.posts[Len(local.posts)][1] = local.i + 1
                                                    THEN ErrorsBy(response, size) ELSE 0],
                 !.items_processed = @ + ProcessedBy(response, size),
                 !.i = IF Succeeded(response)
                          \/ (Len(local.posts) > 0 /\ local.posts[Len(local.posts)][1] = local.i + 1)
                       THEN @ + batch_size ELSE @]

\* one turn of the loop over the batches
PostedBatch(response, size) ==
    local' = [local EXCEPT
                 !.posts = Append(@, <<local.i + 1, local.i + size, response>>),
                 !.stats = [@ EXCEPT !.inserted = @ + InsertedBy(response, size),
                                     !.errors = @ + ErrorsBy(response, size)],
                 !.items_processed = @ + ProcessedBy(response, size),
                 !.i = @ + batch_size]

UpsertPost ==
    /\ pc = "batches"
    /\ local.i < Len(local.items)
    /\ \E response \in Responses :
          PostedBatch(response, Min(batch_size, Len(local.items) - local.i))
    /\ UNCHANGED <<call, pc, ret, stats>>

UpsertReturn ==
    /\ pc = "batches"
    /\ local.i >= Len(local.items)
    /\ ret' = local.stats
    /\ pc' = "return"
    /\ UNCHANGED <<call, stats, local>>

NextUpsert ==
    \/ UpsertNothing
    \/ UpsertPrepare
    \/ UpsertPost
    \/ UpsertReturn

SpecUpsert == InitUpsert /\ [][NextUpsert]_vars

(***************************************************************************)
(* scrape: the collection of the lots by the intercept_response handlers    *)
(* and the normalisation of the collected lots.  call.arg is the sequence   *)
(* of the responses the page receives.  A handler is started for each       *)
(* response in turn and suspends at `await response.json()`; the suspended  *)
(* handlers resume in any order, and the rest of a handler runs without     *)
(* another await.  local holds all_lots, seen_lot_ids, the position of each *)
(* handler, api_calls and the counter of the current section.               *)
(***************************************************************************)
MaxResponses == 2

\* the key under which a set holds a value: True, 1 and 1.0 are one key
PyKey(v) == IF v.t = "bool" THEN VInt(v.n) ELSE v

\* hash(v) raises TypeError
Unhashable(v) == v.t \in {"list", "dict"}

\* the lots the API returns: an id that is a number, the same number as a
\* text, with a blank before it, a blank text, zero with and without a
\* lot_id, one and True, a list, no id at all
CollectLots ==
    {Item([id |-> VInt(5)]), Item([id |-> VStr(<<"5">>)]), Item([id |-> VStr(<<" ","5">>)]),
     Item([id |-> VStr(<<" ">>)]), Item([id |-> VInt(0)]),
     Item([id |-> VInt(0), lot_id |-> VStr(<<"x","9">>)]), Item([lot_id |-> VStr(<<"x","9">>), lot_has_bid |-> VBool(TRUE)]),
     Item([id |-> VInt(1)]), Item([id |-> VBool(TRUE)]), Item(NoItems)}

\* the lists of lots of one response; one holds an element that is not a
\* dict, one a lot whose id cannot be hashed
CollectLists ==
    {<<lot>> : lot \in CollectLots}
    \cup {<<a, b>> : a, b \in {Item([id |-> VInt(5)]), Item([id |-> VStr(<<"5">>)]), Item([id |-> VStr(<<" ","5">>)])}}
    \cup {<<Item([id |-> VInt(5)]), VStr(<<"x">>), Item([id |-> VInt(7)])>>,
          <<Item([id |-> VInt(7)]), Item([id |-> VList(<<"[","5","]">>, 1)]), Item([id |-> VInt(5)])>>}

\* a response of /api/search-lots with status 200 and the JSON data
ApiResponse(per_page, results, hits) ==
    [url |-> "/api/search-lots", status |-> 200, json |-> "data",
     data |-> [perPage |-> per_page, results |-> results, hits |-> hits]]

\* a hit that carries the lot under '_source'
HitOf(lot) == Item([k \in {"_source"} |-> lot])

\* the responses the page receives: lots under 'results', under 'hits' with
\* and without '_source', perPage 0, a body that is not JSON, another
\* status and another URL
CollectResponses ==
    {ApiResponse(20, lots, <<>>) : lots \in CollectLists}
    \cup {ApiResponse(20, <<>>, <<HitOf(Item([id |-> VInt(5)])), Item([id |-> VStr(<<"5">>)])>>),
          ApiResponse(20, <<Item([id |-> VInt(7)])>>, <<HitOf(Item([id |-> VInt(5)]))>>),
          ApiResponse(20, <<>>, <<>>),
          ApiResponse(0, <<Item([id |-> VInt(5)])>>, <<>>),
          [ApiResponse(20, <<Item([id |-> VInt(5)])>>, <<>>) EXCEPT !.json = "raises"],
          [ApiResponse(20, <<Item([id |-> VInt(5)])>>, <<>>) EXCEPT !.status = 304],
          [ApiResponse(20, <<Item([id |-> VInt(5)])>>, <<>>) EXCEPT !.url = "/api/other"]}

CollectInputs ==
    UNION {[1..n -> CollectResponses] : n \in 1..MaxResponses}

\* lot.get('id') or lot.get('lot_id')
lot_id_of(lot) == OrElse(LotGet(lot.d, "id"), LotGet(lot.d, "lot_id"))

\* the test without the look-up in seen_lot_ids
IsNewLot_Always(lot_id, seen_lot_ids) ==
    Truthy(lot_id)

\* if lot_id and lot_id not in seen_lot_ids
IsNewLot(lot_id, seen_lot_ids) ==
    Truthy(lot_id) /\ PyKey(lot_id) \notin seen_lot_ids

\* seen_lot_ids.add(lot_id); all_lots.append(lot); new_lots += 1
Appended(c, lot, lot_id) ==
    [c EXCEPT !.seen_lot_ids = @ \cup {PyKey(lot_id)},
              !.all_lots = Append(@, lot),
              !.new_lots = @ + 1]

\* one turn of the loop over lots_to_add; the membership test raises on an
\* id that cannot be hashed
CollectWithId(c, lot, lot_id) ==
    IF Truthy(lot_id) /\ Unhashable(lot_id) THEN [c EXCEPT !.raised = TRUE]
    ELSE IF IsNewLot(lot_id, c.seen_lot_ids) THEN Appended(c, lot, lot_id)
    ELSE c

\* lot.get raises on an element that is not a dict
CollectLot(c, lot) ==
    IF lot.t # "dict" THEN [c EXCEPT !.raised = TRUE]
    ELSE CollectWithId(c, lot, lot_id_of(lot))

\* for lot in lots_to_add, from the element i on, until an exception
RECURSIVE CollectFrom(_, _, _)
CollectFrom(c, lots_to_add, i) ==
    IF i > Len(lots_to_add) \/ c.raised THEN c
    ELSE CollectFrom(CollectLot(c, lots_to_add[i]), lots_to_add, i + 1)

\* hit.get('_source', hit)
SourceOf(hit) == Get(hit.d, "_source", hit)

\* results if there are any, otherwise the sources of the hits
LotsToAdd(data) ==
    IF data.results # <<>> THEN data.results
    ELSE [i \in 1..Len(data.hits) |-> SourceOf(data.hits[i])]

\* what the handler collects from the data once response.json() has returned
CollectedFrom(data) ==
    IF data.perPage > 0
    THEN CollectFrom([all_lots |-> local.all_lots, seen_lot_ids |-> local.seen_lot_ids,
                      new_lots |-> 0, raised |-> FALSE], LotsToAdd(data), 1)
    ELSE [all_lots |-> local.all_lots, seen_lot_ids |-> local.seen_lot_ids,
          new_lots |-> 0, raised |-> TRUE]

\* self.section_counters[section] += new_lots, when the loop has ended and
\* new_lots > 0
CounterAfter(counter, c) ==
    IF ~c.raised /\ c.new_lots > 0 THEN counter + c.new_lots ELSE counter

InitCollect ==
    /\ call \in {[fn |-> "scrape", arg |-> responses] : responses \in CollectInputs}
    /\ pc = "browser"
    /\ ret = None
    /\ stats = InitialStats
    /\ local = [all_lots |-> <<>>, seen_lot_ids |-> {}, handlers |-> <<>>,
                api_calls |-> 0, section_counter |-> 0]

\* a response arrives: the handler of a response that is not a search of
\* lots with status 200 ends at once, the others count the call and suspend
HandlerStart ==
    /\ pc = "browser"
    /\ Len(local.handlers) < Len(call.arg)
    /\ LET response == call.arg[Len(local.handlers) + 1]
       IN  IF response.url = "/api/search-lots" /\ response.status = 200
           THEN local' = [local EXCEPT !.handlers = Append(@, "await response.json()"),
                                       !.api_calls = @ + 1]
           ELSE local' = [local EXCEPT !.handlers = Append(@, "done")]
    /\ UNCHANGED <<call, pc, ret, stats>>

\* response.json() raises: except: pass
HandlerJsonRaises(h) ==
    /\ pc = "browser"
    /\ local.handlers[h] = "await response.json()"
    /\ call.arg[h].json = "raises"
    /\ local' = [local EXCEPT !.handlers[h] = "done"]
    /\ UNCHANGED <<call, pc, ret, stats>>

\* the handler h with what it has collected
HandlerDone(h, c) ==
    local' = [local EXCEPT !.handlers[h] = "done",
                           !.all_lots = c.all_lots,
                           !.seen_lot_ids = c.seen_lot_ids,
                           !.section_counter = CounterAfter(@, c)]

\* response.json() returns and the handler runs to its end
HandlerResume(h) ==
    /\ pc = "browser"
    /\ local.handlers[h] = "await response.json()"
    /\ call.arg[h].json = "data"
    /\ HandlerDone(h, CollectedFrom(call.arg[h].data))
    /\ UNCHANGED <<call, pc, ret, stats>>

\* normalized_items: the lots for which _normalize_lot returns an item
NormalizedItems(all_lots) ==
    SelectSeq([i \in 1..Len(all_lots) |-> _normalize_lot(all_lots[i].d)], Truthy)

\* self.stats after _normalize_lot has run on the lots from i on
RECURSIVE StatsAfterLots(_, _, _)
StatsAfterLots(stats_, all_lots, i) ==
    IF i > Len(all_lots) THEN stats_
    ELSE StatsAfterLots(StatsAfterLot(stats_, all_lots[i].d), all_lots, i + 1)

\* self.stats['total_scraped'] = len(normalized_items)
StatsAfterScrape(stats_, normalized_items) ==
    [stats_ EXCEPT !.total_scraped = Len(normalized_items)]

ScrapeReturned(normalized_items) ==
    /\ ret' = normalized_items
    /\ stats' = StatsAfterScrape(StatsAfterLots(stats, local.all_lots, 1), normalized_items)

\* the browser is closed; the collected lots are normalised and returned
ScrapeReturn ==
    /\ pc = "browser"
    /\ ScrapeReturned(NormalizedItems(local.all_lots))
    /\ pc' = "return"
    /\ UNCHANGED <<call, local>>

NextCollect ==
    \/ HandlerStart
    \/ \E h \in 1..MaxResponses : h <= Len(local.handlers) /\ HandlerJsonRaises(h)
    \/ \E h \in 1..MaxResponses : h <= Len(local.handlers) /\ HandlerResume(h)
    \/ ScrapeReturn

SpecCollect == InitCollect /\ [][NextCollect]_vars

(***************************************************************************)
(* scrape: the loop over the sections.  The handlers run while scrape is    *)
(* suspended at an await, so the lots they append show as a growth of       *)
(* len(all_lots) across a step; local.len_all_lots is that length.  pc is   *)
(* the await scrape is about to reach.  local.visited, local.exit and       *)
(* local.fruitless record the sections entered, how the pagination of the   *)
(* last section ended and the pages of the section whose click succeeded    *)
(* and whose wait brought no lot.                                           *)
(***************************************************************************)
\* max_pages of a section is capped at MaxPages
MaxPages == 8

\* len(all_lots) is capped at MaxLots
MaxLots == 4

section_names == <<"veiculos", "imoveis", "materiais", "sucatas">>

section_config ==
    [veiculos  |-> [wait_time |-> 7,  max_retries |-> 3, max_pages |-> 200],
     imoveis   |-> [wait_time |-> 7,  max_retries |-> 3, max_pages |-> 50],
     materiais |-> [wait_time |-> 7,  max_retries |-> 3, max_pages |-> 200],
     sucatas   |-> [wait_time |-> 12, max_retries |-> 4, max_pages |-> 200]]

max_failed_clicks == 5

max_wait == 15

max_retries_of(section) == section_config[section_names[section]].max_retries

max_pages_of(section) == Min(section_config[section_names[section]].max_pages, MaxPages)

InitSections ==
    /\ call = [fn |-> "scrape", arg |-> None]
    /\ pc = "goto"
    /\ ret = None
    /\ stats = InitialStats
    /\ local = [section |-> 1, len_all_lots |-> 0, lots_before |-> 0, attempt |-> 0,
                page_num |-> 0, failed_clicks |-> 0, lots_before_page |-> 0,
                time_waited |-> 0, visited |-> <<>>, exit |-> "", fruitless |-> 0]

\* the locals after an await during which the handlers may have appended lots
Awaited(l) ==
    {l} \cup {[l EXCEPT !.len_all_lots = @ + 1] : n \in {n \in {1} : l.len_all_lots < MaxLots}}

\* the loop over the urls goes on to the next section
EndSection(l, exit) ==
    /\ pc' = "goto"
    /\ local' = [l EXCEPT !.section = @ + 1, !.exit = exit, !.attempt = 0, !.page_num = 0]

\* the next turn of `for page_num in range(2, max_pages + 1)`
NextPage(l) ==
    IF l.page_num < max_pages_of(l.section)
    THEN pc' = "scroll" /\ local' = [l EXCEPT !.page_num = @ + 1]
    ELSE EndSection(l, "max_pages")

\* failed_clicks has been increased: break when it has reached
\* max_failed_clicks, otherwise the next page
AfterFailure(l, exit) ==
    IF l.failed_clicks >= max_failed_clicks THEN EndSection(l, exit) ELSE NextPage(l)

\* failed_clicks += 1 and the test that follows it
Failure(l, exit) ==
    AfterFailure([l EXCEPT !.failed_clicks = @ + 1], exit)

\* the error of a section ends the loop over the urls
Loaded_StopOnError(l, outcome) ==
    IF outcome = "ok"
    THEN pc' = "initial wait" /\ local' = l /\ UNCHANGED stats
    ELSE EndSection([l EXCEPT !.section = Len(section_names)], "error")
         /\ stats' = [stats EXCEPT !.errors = @ + 1]

\* await page.goto(url) returns or raises; the except of the section counts
\* the error and the loop goes on with the next url
Loaded(l, outcome) ==
    IF outcome = "ok"
    THEN pc' = "initial wait" /\ local' = l /\ UNCHANGED stats
    ELSE EndSection(l, "error") /\ stats' = [stats EXCEPT !.errors = @ + 1]

SectionLoad ==
    /\ pc = "goto"
    /\ local.section <= Len(section_names)
    /\ \E outcome \in {"ok", "raises"} :
       \E l \in Awaited([local EXCEPT !.visited = Append(@, section_names[local.section]),
                                      !.lots_before = local.len_all_lots,
                                      !.fruitless = 0]) :
          Loaded(l, outcome)
    /\ UNCHANGED <<call, ret>>

\* one turn of `for attempt in range(max_retries)`, and what follows the
\* loop when it ends: the pagination if the section has captured a lot
InitialWaited(l) ==
    IF l.len_all_lots > l.lots_before
    THEN pc' = "scroll" /\ local' = [l EXCEPT !.attempt = @ + 1, !.page_num = 2, !.failed_clicks = 0]
    ELSE IF l.attempt + 1 < max_retries_of(l.section)
         THEN pc' = "initial wait" /\ local' = [l EXCEPT !.attempt = @ + 1]
         ELSE EndSection(l, "no lots")

InitialWait ==
    /\ pc = "initial wait"
    /\ \E l \in Awaited(local) : InitialWaited(l)
    /\ UNCHANGED <<call, ret, stats>>

\* page.evaluate raises: the except of the page
Scrolled(l, outcome) ==
    IF outcome = "ok"
    THEN pc' = "click" /\ local' = l
    ELSE Failure(l, "page errors")

PageScroll ==
    /\ pc = "scroll"
    /\ \E outcome \in {"ok", "raises"} : \E l \in Awaited(local) : Scrolled(l, outcome)
    /\ UNCHANGED <<call, ret, stats>>

\* the selectors have been tried: no button was clicked, or one was and the
\* wait for the lots of the page begins
Clicked(l, button_clicked) ==
    IF button_clicked
    THEN pc' = "page wait" /\ local' = [l EXCEPT !.failed_clicks = 0,
                                                 !.lots_before_page = l.len_all_lots,
                                                 !.time_waited = 0]
    ELSE Failure(l, "fim detectado")

PageClick ==
    /\ pc = "click"
    /\ \E button_clicked \in BOOLEAN : \E l \in Awaited(local) : Clicked(l, button_clicked)
    /\ UNCHANGED <<call, ret, stats>>

\* no new lot after the wait
Fruitless(l) ==
    Failure([l EXCEPT !.fruitless = @ + 1], "fim por timeout")

\* one turn of `while time_waited < max_wait`, and what follows the loop
PageWaited(l) ==
    IF l.len_all_lots > l.lots_before_page THEN NextPage(l)
    ELSE IF l.time_waited < max_wait THEN pc' = "page wait" /\ local' = l
    ELSE Fruitless(l)

PageWait ==
    /\ pc = "page wait"
    /\ \E l \in Awaited([local EXCEPT !.time_waited = @ + 2]) : PageWaited(l)
    /\ UNCHANGED <<call, ret, stats>>

\* await browser.close()
BrowserClose ==
    /\ pc = "goto"
    /\ local.section > Len(section_names)
    /\ pc' = "closed"
    /\ UNCHANGED <<call, ret, stats, local>>

NextSections ==
    \/ SectionLoad
    \/ InitialWait
    \/ PageScroll
    \/ PageClick
    \/ PageWait
    \/ BrowserClose

SpecSections == InitSections /\ [][NextSections]_vars

\* every await of scrape returns
SpecSectionsFair == SpecSections /\ WF_vars(NextSections)


(***************************************************************************)
(* main of scraper.py: the client and its heartbeat, the scrape, the saved  *)
(* file, the upsert and the three ends of the run (return of the empty run, *)
(* except, finally).  call.arg is what the environment provides.            *)
(* local.supabase and local.scraper tell whether the name is bound to an    *)
(* object; local.heartbeat is the sequence of the statuses that the         *)
(* infra_actions row has received; local.calls is the sequence of the       *)
(* heartbeat methods that main has called; local.printed is the sequence of *)
(* the reports main has printed.                                            *)
(***************************************************************************)
\* len(items) of a run is at most MaxItems
MaxItems == 2

\* the methods that the class SupabaseClient of supabase_client.py defines
SupabaseClientMethods ==
    {"heartbeat_start", "heartbeat_update", "heartbeat_progress", "heartbeat_finish",
     "heartbeat_error", "upsert", "get_upsert_stats_detailed", "test", "get_stats",
     "verify_upsert", "__del__"}

\* the name SupabaseClient after the imports: None when both imports failed
Imports == {"SupabaseClient", "None"}

\* os.getenv of SUPABASE_URL and SUPABASE_SERVICE_ROLE_KEY
Configurations == {"configured", "missing"}

MainInputs == [SupabaseClient : Imports, config : Configurations]

InitMain ==
    /\ call \in {[fn |-> "main", arg |-> env] : env \in MainInputs}
    /\ pc = "client"
    /\ ret = None
    /\ stats = InitialStats
    /\ local = [supabase |-> FALSE, heartbeat_id |-> FALSE, scraper |-> FALSE,
                items |-> 0, upsert |-> [inserted |-> 0, errors |-> 0],
                heartbeat |-> <<>>, calls |-> <<>>, printed |-> <<>>, exc |-> ""]

\* an exception raised inside the try: control goes to `except Exception`
MainRaise(l, exc) ==
    /\ pc' = "except"
    /\ local' = [l EXCEPT !.exc = exc]

\* heartbeat_update: no request without a heartbeat_id; the row takes the
\* status when the PATCH reaches the service
heartbeat_update(l, status, patched) ==
    IF l.heartbeat_id /\ patched THEN [l EXCEPT !.heartbeat = Append(@, status)] ELSE l

\* a method call on the client: the attribute lookup comes first
MethodCall(l, method) == [l EXCEPT !.calls = Append(@, method)]

\* if SupabaseClient: supabase = SupabaseClient(service_name='sodre_scraper', ...)
MainClient ==
    /\ pc = "client"
    /\ IF call.arg.SupabaseClient = "None"
       THEN pc' = "scrape" /\ local' = local
       ELSE IF call.arg.config = "missing"
            THEN MainRaise(local, "ValueError")
            ELSE pc' = "test" /\ local' = [local EXCEPT !.supabase = TRUE]
    /\ UNCHANGED <<call, ret, stats>>

\* if supabase.test(): supabase.heartbeat_start(metadata=...)
MainHeartbeatStart ==
    /\ pc = "test"
    /\ \E test \in BOOLEAN, started \in BOOLEAN :
          local' = IF ~test THEN local
                   ELSE IF started
                        THEN [MethodCall(local, "heartbeat_start") EXCEPT
                                 !.heartbeat_id = TRUE, !.heartbeat = Append(@, "active")]
                        ELSE MethodCall(local, "heartbeat_start")
    /\ pc' = "scrape"
    /\ UNCHANGED <<call, ret, stats>>

\* the stats of the scraper after a scrape that returned `items` items
ScrapedStats(items, with_bids, errors) ==
    [InitialStats EXCEPT !.total_scraped = items, !.with_bids = with_bids, !.errors = errors]

\* scraper = SodreScraperCategorizado(debug=False); items = await scraper.scrape()
MainScrape ==
    /\ pc = "scrape"
    /\ \E raises \in BOOLEAN, items \in 0..MaxItems, errors \in 0..1 :
       \E with_bids \in 0..items :
          IF raises
          THEN /\ MainRaise([local EXCEPT !.scraper = TRUE], "Exception")
               /\ stats' = stats
          ELSE /\ local' = [local EXCEPT !.scraper = TRUE, !.items = items]
               /\ stats' = ScrapedStats(items, with_bids, errors)
               /\ pc' = IF items = 0 THEN "empty" ELSE "save"
    /\ UNCHANGED <<call, ret>>

\* if not items: heartbeat_finish(status='warning', ...); return
MainNoItems ==
    /\ pc = "empty"
    /\ \E patched \in BOOLEAN :
          local' = IF local.supabase
                   THEN heartbeat_update(MethodCall(local, "heartbeat_finish"),
                                         "warning", patched)
                   ELSE local
    /\ pc' = "finally"
    /\ UNCHANGED <<call, ret, stats>>

\* with open(json_file, 'w') as f: json.dump(items, f, ...)
MainSave ==
    /\ pc = "save"
    /\ \E saved \in BOOLEAN :
          IF saved
          THEN pc' = (IF local.supabase THEN "upsert" ELSE "finally") /\ local' = local
          ELSE MainRaise(local, "OSError")
    /\ UNCHANGED <<call, ret, stats>>

\* stats = supabase.upsert('sodre_items', items): a heartbeat_progress for
\* every batch that succeeded
MainUpsert ==
    /\ pc = "upsert"
    /\ \E response \in Responses, patched \in BOOLEAN :
          local' = [(IF Succeeded(response)
                     THEN heartbeat_update(local, "active", patched)
                     ELSE local) EXCEPT
                       !.upsert = [inserted |-> InsertedBy(response, local.items),
                                   errors |-> ErrorsBy(response, local.items)]]
    /\ pc' = "success"
    /\ UNCHANGED <<call, ret, stats>>

\* supabase.heartbeat_success(final_stats=...): the lookup of an attribute
\* that the class does not define raises AttributeError
MainHeartbeatSuccess ==
    /\ pc = "success"
    /\ IF "heartbeat_success" \in SupabaseClientMethods
       THEN /\ \E patched \in BOOLEAN :
                  local' = heartbeat_update(MethodCall(local, "heartbeat_success"),
                                            "active", patched)
            /\ pc' = "finally"
       ELSE MainRaise(local, "AttributeError")
    /\ UNCHANGED <<call, ret, stats>>

\* except Exception as e: print(...); if supabase: supabase.heartbeat_error(...)
MainExcept ==
    /\ pc = "except"
    /\ \E patched \in BOOLEAN :
          local' = [(IF local.supabase
                     THEN heartbeat_update(MethodCall(local, "heartbeat_error"),
                                           "error", patched)
                     ELSE local) EXCEPT !.printed = Append(@, "Erro crítico")]
    /\ pc' = "finally"
    /\ UNCHANGED <<call, ret, stats>>

\* finally: the prints read scraper.stats, which raises UnboundLocalError
\* when no object has been assigned to scraper
MainFinally ==
    /\ pc = "finally"
    /\ IF local.scraper
       THEN /\ local' = [local EXCEPT !.printed = Append(@, "ESTATÍSTICAS FINAIS")]
            /\ ret' = None
            /\ pc' = "returned"
       ELSE /\ local' = local
            /\ ret' = Raised("UnboundLocalError")
            /\ pc' = "raised"
    /\ UNCHANGED <<call, stats>>

NextMain ==
    \/ MainClient
    \/ MainHeartbeatStart
    \/ MainScrape
    \/ MainNoItems
    \/ MainSave
    \/ MainUpsert
    \/ MainHeartbeatSuccess
    \/ MainExcept
    \/ MainFinally

SpecMain == InitMain /\ [][NextMain]_vars

(***************************************************************************)
(* validate_sodre_lots.py: validate_batch and the filter that main applies  *)
(* to its result.  call.arg is the list of rows read from the database;     *)
(* local.lots is the same list as validate_batch changes it (needs_update), *)
(* local.i the offset of the batch, local.results the results that gather   *)
(* has so far for the tasks of the batch ("" for a task that is still       *)
(* running), local.returned what the check of each lot came to, and         *)
(* local.lots_to_update the positions of the rows that main deactivates.    *)
(***************************************************************************)
\* validate_batch(lots, batch_size=5, debug=False)
validate_batch_size == 5

\* the longest list of rows handed to validate_batch
MaxChecked == 6

\* a row of the query: link, auction_id and lot_id, each possibly absent
ValidatedLot(link, ids) == [link |-> link, ids |-> ids, needs_update |-> FALSE]

\* the rows of a list: with a link, with ids only, with neither, in turn
LotOfKind(kind) ==
    CASE kind = 0 -> ValidatedLot(TRUE, TRUE)
      [] kind = 1 -> ValidatedLot(FALSE, TRUE)
      [] kind = 2 -> ValidatedLot(TRUE, FALSE)
      [] OTHER -> ValidatedLot(FALSE, FALSE)

ValidateInputs ==
    {[n \in 1..len |-> LotOfKind((n + shift) % 4)] : len \in 0..MaxChecked, shift \in 0..3}

\* what happens to the page of a lot
PageOutcomes == {"lotes-encerrados", "lot page", "goto raises", "launch raises", "close raises"}

\* check_lot: 'erro' without a url; otherwise by the url the page ends on;
\* an exception of launch or of browser.close() leaves the coroutine
check_lot(lot, page) ==
    IF ~lot.link /\ ~lot.ids THEN "erro"
    ELSE CASE page = "lotes-encerrados" -> "encerrado"
           [] page = "lot page" -> "ativo"
           [] page = "goto raises" -> "erro"
           [] OTHER -> "raised"

InitValidate ==
    /\ call \in {[fn |-> "validate_batch", arg |-> lots] : lots \in ValidateInputs}
    /\ pc = "batch"
    /\ ret = None
    /\ stats = InitialStats
    /\ local = [lots |-> call.arg, i |-> 0,
                results |-> <<>>,
                returned |-> [n \in 1..Len(call.arg) |-> ""],
                stats |-> [checked |-> 0, encerrados |-> 0, updated |-> 0, errors |-> 0],
                lots_to_update |-> {}]

\* batch = lots[i:i+batch_size]
BatchLength(l) == Min(validate_batch_size, Len(l.lots) - l.i)

\* tasks = [check_lot(...) for lot in batch]; gather starts them
ValidateGather ==
    /\ pc = "batch"
    /\ local.i < Len(local.lots)
    /\ local' = [local EXCEPT !.results = [n \in 1..BatchLength(local) |-> ""]]
    /\ pc' = "gather"
    /\ UNCHANGED <<call, ret, stats>>

\* one of the running tasks of the batch ends
ValidateCheck ==
    /\ pc = "gather"
    /\ \E n \in 1..Len(local.results), page \in PageOutcomes :
          /\ local.results[n] = ""
          /\ local' = [local EXCEPT
                          !.results[n] = check_lot(local.lots[local.i + n], page),
                          !.returned[local.i + n] = check_lot(local.lots[local.i + n], page)]
    /\ UNCHANGED <<call, pc, ret, stats>>

Closed_NotActive(results) == {n \in 1..Len(results) : results[n] # "ativo"}

\* if result == 'encerrado'
Closed(results) == {n \in 1..Len(results) : results[n] = "encerrado"}

\* for lot, result in zip(batch, results): the counters and needs_update
Flagged(l) ==
    [l EXCEPT
        !.lots = [k \in 1..Len(@) |->
                     IF k > l.i /\ k - l.i \in Closed(l.results)
                     THEN [@[k] EXCEPT !.needs_update = TRUE] ELSE @[k]],
        !.stats = [@ EXCEPT !.encerrados = @ + Cardinality(Closed(l.results)),
                            !.checked = @ + Len(l.results)],
        !.i = @ + validate_batch_size,
        !.results = <<>>]

\* gather has every result: the loop over zip(batch, results)
ValidateFlag ==
    /\ pc = "gather"
    /\ \A n \in 1..Len(local.results) : local.results[n] # ""
    /\ local' = Flagged(local)
    /\ pc' = "batch"
    /\ UNCHANGED <<call, ret, stats>>

\* return stats
ValidateReturn ==
    /\ pc = "batch"
    /\ local.i >= Len(local.lots)
    /\ ret' = local.stats
    /\ pc' = "return"
    /\ UNCHANGED <<call, stats, local>>

\* main: lots_to_update = [lot for lot in lots if lot.get('needs_update')]
ValidateMainFilter ==
    /\ pc = "return"
    /\ local' = [local EXCEPT
                    !.lots_to_update = {k \in 1..Len(local.lots) : local.lots[k].needs_update}]
    /\ pc' = "update"
    /\ UNCHANGED <<call, ret, stats>>

NextValidate ==
    \/ ValidateGather
    \/ ValidateCheck
    \/ ValidateFlag
    \/ ValidateReturn
    \/ ValidateMainFilter

SpecValidate == InitValidate /\ [][NextValidate]_vars
(***************************************************************************)
(* Claims about the classifier.                                            *)
(***************************************************************************)
Categories ==
    {"Imóveis", "Veículos", "Máquinas & Equipamentos", "Tecnologia",
     "Casa & Consumo", "Industrial & Empresarial", "Materiais & Sucatas",
     "Arte & Colecionáveis", "Outros"}

Categorized == call.fn = "_categorize_item" /\ pc = "return"

\* the label of the call, trimmed and lower-cased
CleanedArg == Lower(Strip(call.arg.s))

\* C2: for every string or absent subcategory _categorize_item returns one of
\* the nine canonical categories, and it returns 'Outros' whenever the input
\* is absent, empty, whitespace-only, or matches neither a table key nor any
\* fallback substring.
C2_CanonicalCategory ==
    Categorized =>
        /\ ret \in Categories
        /\ (call.arg.t = "None" \/ Strip(call.arg.s) = <<>>) => ret = "Outros"
        /\ (call.arg.t = "str" /\ CleanedArg \notin MappingKeys /\ MatchingRules(CleanedArg) = {})
              => ret = "Outros"

C2_Witness ==
    /\ Categorized
    /\ call.arg = VStr(<<"a","l","g","o"," ","t","o","t","a","l","m","e","n","t","e"," ","n","o","v","o">>)
    /\ ret = "Outros"

\* C3: exact match has priority over the substring fallback: for every key k
\* of category_mapping, _categorize_item(k) is category_mapping[k], even when
\* k contains a substring of a fallback rule of a different category.
C3_ExactMatchFirst ==
    (Categorized /\ call.arg.t = "str" /\ call.arg.s \in MappingKeys) =>
        /\ ret = MappingGet(call.arg.s)
        /\ call.arg.s = <<"c","o","m","p","l","e","x","o"," ","i","n","d","u","s","t","r","i","a","l">> => ret = "Imóveis"
        /\ call.arg.s = <<"e","q","u","i","p","."," ","e"," ","m","a","t","."," ","i","n","d","u","s","t","r","i","a","i","s">> => ret = "Máquinas & Equipamentos"
        /\ call.arg.s = <<"e","l","e","t","r","o","d","o","m","e","s","t","i","c","o","s">> => ret = "Tecnologia"

\* a table key whose first matching fallback rule belongs to another category
C3_Witness ==
    /\ Categorized
    /\ call.arg = VStr(<<"c","o","m","p","l","e","x","o"," ","i","n","d","u","s","t","r","i","a","l">>)
    /\ MatchingRules(call.arg.s) # {}
    /\ FallbackRules[SetMin(MatchingRules(call.arg.s))].cat = "Industrial & Empresarial"
    /\ ret = "Imóveis"

\* C4: for an input with no exact table match, _categorize_item returns the
\* category of the first fallback rule, in declaration order, of which a
\* substring occurs in the cleaned input; later rules that also match never
\* change the result.
C4_FirstRuleWins ==
    (Categorized /\ call.arg.t = "str" /\ CleanedArg \notin MappingKeys
        /\ MatchingRules(CleanedArg) # {}) =>
        /\ ret = FallbackRules[SetMin(MatchingRules(CleanedArg))].cat
        /\ call.arg.s = <<"a","p","a","r","t","a","m","e","n","t","o"," ","r","e","s","i","d","e","n","c","i","a","l">> => ret = "Imóveis"

\* a label matched by two rules of different categories
C4_Witness ==
    /\ Categorized
    /\ call.arg = VStr(<<"s","u","c","a","t","a"," ","c","a","r","r","o">>)
    /\ Cardinality(MatchingRules(CleanedArg)) = 2
    /\ ret = "Veículos"

\* C5: classification is insensitive to letter case and to surrounding
\* whitespace: _categorize_item(s) = _categorize_item(lowercase(trim(s)));
\* 'carros' and 'CARROS' both give 'Veículos'.
C5_CaseAndSpaceInsensitive ==
    (Categorized /\ call.arg.t = "str") =>
        /\ ret = _categorize_item(VStr(CleanedArg))
        /\ call.arg.s \in {<<"c","a","r","r","o","s">>, <<"C","A","R","R","O","S">>} => ret = "Veículos"

C5_Witness ==
    /\ Categorized
    /\ call.arg = VStr(Spaces(1) \o <<"C","A","R","R","O","S">>)
    /\ ret = "Veículos"

(***************************************************************************)
(* Claims about the normaliser.                                            *)
(***************************************************************************)
Returned(fn) == call.fn = fn /\ pc = "return"

ValidStateSet == {VALID_STATES[i] : i \in 1..Len(VALID_STATES)}

\* C6: _validate_state returns either absent or a member of the fixed table
\* of 27 distinct state codes; a value is returned exactly when the trimmed,
\* upper-cased input is a member of the table, and the returned value is that
\* upper-cased code ('sp' gives 'SP', 'XX' gives absent, None gives absent).
C6_ValidStateOrAbsent ==
    Returned("_validate_state") =>
        /\ Len(VALID_STATES) = 27 /\ Cardinality(ValidStateSet) = 27
        /\ ret = None \/ (ret.t = "str" /\ ret.s \in ValidStateSet)
        /\ (ret # None) <=> (Upper(Strip(call.arg.s)) \in ValidStateSet)
        /\ (ret # None) => ret = VStr(Upper(Strip(call.arg.s)))
        /\ call.arg = VStr(<<"s","p">>) => ret = VStr(<<"S","P">>)
        /\ call.arg = VStr(<<"X","X">>) => ret = None
        /\ call.arg = None => ret = None

C6_Witness ==
    /\ Returned("_validate_state")
    /\ call.arg = VStr(<<" ","s","p">>)
    /\ ret = VStr(<<"S","P">>)

\* the rule of C8 for one word
RuleWord(w) ==
    IF IsUpper(w) /\ Len(w) <= 5 THEN w
    ELSE IF Lower(w) \in LOWERCASE_WORDS THEN Lower(w)
    ELSE Capitalize(w)

\* C8 as stated: smart title-casing treats every word of the text by the same
\* rule, whatever its position (all upper-case and at most 5 characters:
\* verbatim; else connector: lower case; else capitalized).
C8_EveryWordSameRule ==
    Returned("_smart_title_case") =>
        LET words == Split(call.arg.s)
        IN  words # <<>> =>
                ret.s = Join(<<" ">>, [i \in 1..Len(words) |-> RuleWord(words[i])])

\* C8 amended: the first word of the text is always capitalized (first letter
\* upper-case, the rest lower-case), whatever it is; every later word is
\* treated by the rule (all upper-case and at most 5 characters: verbatim;
\* else connector: lower case; else capitalized).
C8_FirstWordCapitalized ==
    Returned("_smart_title_case") =>
        LET words == Split(call.arg.s)
        IN  words # <<>> =>
                ret.s = Join(<<" ">>, [i \in 1..Len(words) |->
                                     IF i = 1 THEN Capitalize(words[i]) ELSE RuleWord(words[i])])

\* a connector first and an acronym first, a preserved acronym and a
\* lower-cased connector later
C8_Witness ==
    /\ Returned("_smart_title_case")
    /\ call.arg = VStr(<<"D","E"," ","P","R","A","I","A"," ","D","a">>)
    /\ ret = VStr(<<"D","e"," ","P","R","A","I","A"," ","d","a">>)

\* C1: for every raw record, including the empty mapping and mappings in
\* which any field is None or of the wrong type, normalize returns a record
\* and never raises, so normalize_items never aborts partway through a list.
C1_NormalizeNeverRaises ==
    /\ Returned("normalize") => ret.t = "dict"
    /\ Returned("normalize_items") => ret.t = "list"

\* C7: title cleaning of 'LOTE 5 - Casa na Praia, 20% abaixo na 2ª praça'
\* strips the lot prefix and the round phrase and, after title-casing, yields
\* exactly 'Casa Na Praia', without leftover trailing punctuation.
C7_TitleExample ==
    (Returned("normalize")
        /\ call.arg = Item([title |-> VStr(<<"L","O","T","E"," ","5"," ","-"," ","C","a","s","a"," ","n","a"," ","P","r","a","i","a",","," ","2","0","%"," ","a","b","a","i","x","o"," ","n","a"," ","2","ª"," ","p","r","a","ç","a">>)]))
    => ret.d.title = VStr(<<"C","a","s","a"," ","N","a"," ","P","r","a","i","a">>)

\* the record of the call with its title replaced by the normalized title
Renormalized ==
    normalize(Item([k \in (DOMAIN call.arg.d) \cup {"title"} |->
                       IF k = "title" THEN ret.d.title ELSE call.arg.d[k]]))

\* the title and the normalized_title of two records are the same
SameTitles(a, b) ==
    /\ a.d.title = b.d.title
    /\ a.d.normalized_title = b.d.normalized_title

\* C9: normalization is idempotent on its own output: normalizing a record
\* whose title is the title produced by normalize(x) yields the same title
\* and the same normalized_title again.
C9_TitleIdempotent ==
    (Returned("normalize") /\ ret.t = "dict") => SameTitles(Renormalized, ret)

\* C10: the cleaned description is either absent or a string whose length,
\* measured after all cleaning steps, is at least 5 and at most 5000; a raw
\* description whose cleaned text is shorter than 5 characters yields absent.
C10_DescriptionLength ==
    Returned("_deep_clean_description") =>
        \/ ret = None
        \/ ret.t = "str" /\ Len(ret.s) >= 5 /\ Len(ret.s) <= 5000

\* the call of normalize has returned a record
Normalized == Returned("normalize") /\ ret.t = "dict"

\* '...' when the text is longer than 150 characters
Ellipsis(text) == IF Len(text) > 150 THEN <<".",".",".">> ELSE <<>>

\* C11 as stated: whenever the cleaned description is present, the preview is
\* its first 150 characters, followed by '...' exactly when it is longer than
\* 150; the title is used only when the description is absent.
C11_PreviewOfPresentDescription ==
    Normalized =>
        IF ret.d.description # None
        THEN ret.d.description_preview.s
                 = Prefix(ret.d.description.s, 150) \o Ellipsis(ret.d.description.s)
        ELSE ret.d.description_preview.s = Prefix(ret.d.title.s, 150)

\* C11 amended: a cleaned description longer than 10 characters gives its
\* first 150 characters with the surrounding whitespace stripped, followed by
\* '...' exactly when it is longer than 150; an absent description and one of
\* at most 10 characters give the first 150 characters of the title.
C11_PreviewOfLongEnoughDescription ==
    Normalized =>
        IF ret.d.description # None /\ Len(ret.d.description.s) > 10
        THEN ret.d.description_preview.s
                 = Strip(Prefix(ret.d.description.s, 150)) \o Ellipsis(ret.d.description.s)
        ELSE ret.d.description_preview.s = Prefix(ret.d.title.s, 150)

\* a present description of at most 10 characters, whose preview is the title
C11_Witness ==
    /\ Normalized
    /\ ret.d.description = VStr(<<"a","b","c","d","e">>)
    /\ ret.d.description_preview = VStr(<<"S","e","m"," ","T","í","t","u","l","o">>)

\* a float that is a number (not a NaN), not negative, with two decimals
NonNegativeCents(v) ==
    /\ v.t = "float"
    /\ v.s # <<"n","a","n">>
    /\ v.n >= 0
    /\ v.n % 10 = 0

\* C12: for every raw input, value and first_round_value are absent or a
\* number greater than or equal to 0 rounded to two decimal places; a negative
\* number and an unparseable input yield absent.
C12_ValueAbsentOrNonNegative ==
    /\ Returned("_parse_value") => ret = None \/ NonNegativeCents(ret)
    /\ Normalized =>
           /\ ret.d.value = None \/ NonNegativeCents(ret.d.value)
           /\ ret.d.first_round_value = None \/ NonNegativeCents(ret.d.first_round_value)

\* the raw value of a field of the record handed to normalize
Raw(field) == Get(call.arg.d, field, None)

\* C13: in every record returned by normalize, total_visits, total_bids and
\* total_bidders are integers, equal to the default 0 when the raw value is
\* absent or cannot be parsed; days_remaining is absent or an integer greater
\* than or equal to 0, every negative parsed value being clamped to 0.
C13_CountersAndDays ==
    Normalized =>
        /\ \A key \in CountKeys :
               /\ ret.d[key].t = "int"
               /\ (Raw(key) = None \/ IntOf(Raw(key)).t = "raised") => ret.d[key] = VInt(0)
        /\ \/ ret.d.days_remaining = None
           \/ ret.d.days_remaining.t = "int" /\ ret.d.days_remaining.n >= 0
        /\ (IntOf(Raw("days_remaining")).t = "int" /\ IntOf(Raw("days_remaining")).n < 0)
               => ret.d.days_remaining = VInt(0)

\* a negative number of days clamped to 0 in a record whose counters are absent
C13_Witness ==
    /\ Normalized
    /\ Raw("days_remaining") = VStr(<<"-","5">>)
    /\ ret.d.days_remaining = VInt(0)
    /\ ret.d.total_bids = VInt(0)

\* YYYY-MM-DD at the start of the text
HasDatePrefix(s) ==
    /\ Len(s) >= 10
    /\ \A i \in 1..10 : IF i \in {5, 8} THEN s[i] = "-" ELSE IsDigit(s[i])

\* HH:MM:SS after 'T' or a space, from position 11 to the end of the text
HasTimeSuffix(s) ==
    /\ Len(s) = 19
    /\ s[11] \in {"T", " "}
    /\ \A i \in 12..19 : IF i \in {14, 17} THEN s[i] = ":" ELSE IsDigit(s[i])

\* C14 as stated: _parse_date returns a value only when the whole input (as
\* a text without its surrounding whitespace) has the form YYYY-MM-DD,
\* optionally followed by 'T' or a space and HH:MM:SS, and then returns that
\* string unchanged; every other input, one with extra characters after a
\* well-formed prefix included, yields absent.
C14_WholeStringValidated ==
    Returned("_parse_date") =>
        IF /\ Truthy(call.arg)
           /\ HasDatePrefix(Strip(PyStr(call.arg)))
           /\ Len(Strip(PyStr(call.arg))) = 10 \/ HasTimeSuffix(Strip(PyStr(call.arg)))
        THEN ret = VStr(Strip(PyStr(call.arg)))
        ELSE ret = None

\* C14 amended: _parse_date returns a value exactly when the text of the
\* input, with the surrounding whitespace stripped, starts with YYYY-MM-DD,
\* and then returns the whole stripped text, whatever follows the date.
C14_PrefixValidated ==
    Returned("_parse_date") =>
        IF Truthy(call.arg) /\ HasDatePrefix(Strip(PyStr(call.arg)))
        THEN ret = VStr(Strip(PyStr(call.arg)))
        ELSE ret = None

\* a well-formed date followed by other characters, passed through
C14_Witness ==
    /\ Returned("_parse_date")
    /\ call.arg = VStr(<<"2","0","2","6","-","0","1","-","1","2","x","y","z">>)
    /\ ret = VStr(<<"2","0","2","6","-","0","1","-","1","2","x","y","z">>)

AllowList == {"raw_category", "condition", "brand", "model", "year", "quantity", "unit_price"}

\* the keys of the input 'metadata' value when it is a mapping, none otherwise
InputMetadataKeys == IF Raw("metadata").t = "dict" THEN DOMAIN Raw("metadata").d ELSE {}

\* the allowlisted fields present at top level with a value that is not None
AllowedPresent == {field \in AllowList \cap DOMAIN call.arg.d : call.arg.d[field] # None}

\* C15: the keys of the output metadata are exactly the keys of the input
\* 'metadata' mapping together with the allowlisted fields present at top
\* level with a non-null value; a top-level field outside the allowlist never
\* becomes a key, and an allowlisted top-level value replaces a same-named
\* entry of the input metadata.
C15_MetadataKeys ==
    Normalized =>
        /\ ret.d.metadata.t = "dict"
        /\ DOMAIN ret.d.metadata.d = InputMetadataKeys \cup AllowedPresent
        /\ \A field \in AllowedPresent : ret.d.metadata.d[field] = call.arg.d[field]
        /\ \A key \in InputMetadataKeys \ AllowedPresent :
               ret.d.metadata.d[key] = Raw("metadata").d[key]

\* brand=Toyota replaces the brand of the input metadata, and foo=bar at
\* top level is dropped
C15_Witness ==
    /\ Normalized
    /\ Raw("foo") = VStr(<<"b","a","r">>)
    /\ Raw("brand") = VStr(<<"T","o","y","o","t","a">>)
    /\ Raw("metadata").t = "dict"
    /\ DOMAIN Raw("metadata").d = {"brand"}
    /\ DOMAIN ret.d.metadata.d = {"brand"}
    /\ ret.d.metadata.d.brand = VStr(<<"T","o","y","o","t","a">>)

\* the identifier a raw lot carries: its 'id', or its 'lot_id' when 'id' is
\* missing or empty
LotIdentifier ==
    OrElse(Raw("id"), Raw("lot_id"))

\* C16: the external identifier is a pure pass-through: for every raw record
\* that carries an identifier, the record produced has its external_id
\* populated with exactly that value (not trimmed, re-cased or re-typed), and
\* the field is never dropped.
C16_ExternalIdPassThrough ==
    /\ (Normalized /\ Raw("external_id") # None) => ret.d.external_id = Raw("external_id")
    /\ (Returned("_normalize_lot") /\ Truthy(LotIdentifier)) =>
           /\ "external_id" \in DOMAIN ret.d
           /\ ret.d.external_id = LotIdentifier

\* C17: classifying or normalizing a record has no side effects: a call of
\* _categorize_item, normalize or _normalize_lot leaves the raw record passed
\* in and every field of the instance (the stats counters included) unchanged.
C17_NoSideEffects ==
    [][call' = call /\ stats' = stats]_vars

\* what the call c returns when it runs alone
AloneResult(c) ==
    CASE c.fn = "_categorize_item" -> _categorize_item(c.arg)
      [] c.fn = "normalize" -> normalize(c.arg)
      [] OTHER -> _normalize_lot(c.arg.d)

\* C18: classification and normalization can run concurrently without
\* coordination: in every interleaving of invocations on different records
\* that share one scraper or normalizer instance, each invocation returns the
\* result it returns when run alone, and no invocation writes to state that
\* another invocation reads.
C18_ConcurrentWithoutCoordination ==
    \A t \in Threads :
        /\ pc[t] = "return" => ret[t] = AloneResult(call[t])
        /\ \A u \in Threads \ {t} : local[t].writes \cap local[u].reads = {}

\* both lots have a bid and both invocations have returned, yet the counter
\* of lots with bids has counted one of them only
LostUpdate ==
    /\ \A t \in Threads : pc[t] = "return" /\ call[t].fn = "_normalize_lot" /\ HasBids(call[t].arg.d)
    /\ stats.with_bids < MaxThreads

\* absent, or a str that is not empty once its surrounding whitespace is removed
AbsentOrNotBlank(v) ==
    v = None \/ (v.t = "str" /\ Strip(v.s) # <<>>)

\* C19: in every record returned by normalize, each text field (title, city,
\* address, description, auction_type, auction_name, store_name, lot_number)
\* is either absent or a non-empty string that is not whitespace-only.
C19_TextFieldsNotBlank ==
    Normalized => \A field \in TextKeys : AbsentOrNotBlank(ret.d[field])

\* C20: a normalized record is never mutated after it is constructed: handing
\* a list of records to SupabaseClient.upsert leaves every record of the list
\* with exactly the keys and values it had before the call, whether the
\* batches succeed or fail.
C20_RecordsNotMutated ==
    local.items = call.arg

\* the id keys of the collected lots, in the order of all_lots
IdKeys == [i \in 1..Len(local.all_lots) |-> PyKey(lot_id_of(local.all_lots[i]))]

\* C21: collection deduplicates: after any sequence and any interleaving of
\* the intercept_response handlers, all_lots holds no two lots with the same
\* id key ('id', or 'lot_id' when 'id' is falsy), and seen_lot_ids is the
\* set of the id keys of the lots in all_lots, so that a lot is appended at
\* most once however many responses carry it.
C21_CollectionDeduplicates ==
    /\ \A i, j \in 1..Len(IdKeys) : i # j => IdKeys[i] # IdKeys[j]
    /\ local.seen_lot_ids = {IdKeys[i] : i \in 1..Len(IdKeys)}

\* two responses carrying the lot 5 have been handled, and the lot is in
\* all_lots
C21_Witness ==
    /\ Len(call.arg) >= 2
    /\ \A h \in 1..2 : /\ call.arg[h] = ApiResponse(20, <<Item([id |-> VInt(5)])>>, <<>>)
                      /\ h <= Len(local.handlers) /\ local.handlers[h] = "done"
    /\ local.all_lots = <<Item([id |-> VInt(5)])>>

\* the external_id of the item i returned by scrape, None when it has none
ExternalIdOf(i) == Get(ret[i].d, "external_id", None)

\* C22: no two items returned by scrape() carry the same external_id, and
\* every returned item carries a non-empty external_id, for every sequence
\* of API responses, ids that stringify and trim to the same text included.
C22_UniqueExternalIds ==
    pc = "return" =>
        /\ \A i, j \in 1..Len(ret) : i # j => ExternalIdOf(i) # ExternalIdOf(j)
        /\ \A i \in 1..Len(ret) : ExternalIdOf(i) # None /\ ExternalIdOf(i).s # <<>>

\* scrape has returned two items with the same external_id
DuplicateExternalIds ==
    /\ pc = "return"
    /\ \E i, j \in 1..Len(ret) : i # j /\ ExternalIdOf(i) # None /\ ExternalIdOf(i) = ExternalIdOf(j)

\* C23: pagination of a section ends by timeout: when the click on the next
\* page keeps succeeding but no new lot arrives within the wait, the loop
\* stops as soon as max_failed_clicks (5) such pages have occurred, with the
\* exit 'fim por timeout'.
C23_EndsByTimeout ==
    local.fruitless >= max_failed_clicks => (pc = "goto" /\ local.exit = "fim por timeout")

\* the exit 'fim por timeout' is never taken
TimeoutExitNeverTaken ==
    local.exit # "fim por timeout"

Paginating == pc \in {"scroll", "click", "page wait"}

\* C24: the scrape loop is bounded: the initial wait of a section makes at
\* most max_retries attempts, pagination is entered only if the section has
\* captured at least one lot and goes no further than page max_pages, and
\* each wait for the lots of a page ends after at most 15 s of waiting.
C24_LoopsBounded ==
    /\ local.section <= Len(section_names) => local.attempt <= max_retries_of(local.section)
    /\ Paginating => /\ local.len_all_lots > local.lots_before
                     /\ local.page_num <= max_pages_of(local.section)
    /\ local.time_waited <= max_wait

\* the same with the wait that the loop makes: eight sleeps of 2 s
LoopsBoundedBy16 ==
    /\ local.section <= Len(section_names) => local.attempt <= max_retries_of(local.section)
    /\ Paginating => /\ local.len_all_lots > local.lots_before
                     /\ local.page_num <= max_pages_of(local.section)
    /\ local.time_waited <= max_wait + 1

\* the browser is eventually closed
Terminates == <>(pc = "closed")

\* the sections visited so far are the first ones of the fixed order, and
\* all four have been visited when the browser is closed
VisitedInOrder ==
    /\ local.visited = SubSeq(section_names, 1, Len(local.visited))
    /\ pc = "closed" => local.visited = section_names

\* a step in which the section raises: the error is counted once and the
\* loop goes on with the next section
SectionRaises ==
    stats' # stats =>
        /\ stats' = [stats EXCEPT !.errors = @ + 1]
        /\ pc' = "goto"
        /\ local'.section = local.section + 1

\* a step in which a page raises: the failure counter goes up by one, the
\* errors are not counted, and the section ends when the counter reaches
\* max_failed_clicks
PageRaises ==
    (pc = "scroll" /\ pc' # "click") =>
        /\ stats' = stats
        /\ local'.failed_clicks = local.failed_clicks + 1
        /\ local'.failed_clicks >= max_failed_clicks => pc' = "goto"
        /\ pc' = "goto" => (local'.failed_clicks >= max_failed_clicks
                            \/ local.page_num = max_pages_of(local.section))

\* C25: a failure in one section does not stop the run: when loading a
\* section raises, stats['errors'] is increased by exactly 1, the lots
\* already collected are kept and every remaining section is still visited,
\* in the order veiculos, imoveis, materiais, sucatas; an error on a page
\* only increments the page failure counter, and ends the section when the
\* counter reaches 5.
C25_SectionFailureContained ==
    /\ []VisitedInOrder
    /\ [][SectionRaises /\ PageRaises /\ local'.len_all_lots >= local.len_all_lots]_vars

\* a section has raised, the last one has ended on page errors, and the
\* browser is closed after the four sections with the lots collected
C25_Witness ==
    /\ pc = "closed"
    /\ stats.errors >= 1
    /\ local.exit = "page errors"
    /\ local.visited = section_names
    /\ local.len_all_lots > 0


\* C26: on a run of main in which the heartbeat was started, an item was
\* collected and upsert returned, heartbeat_error is never called and the
\* status of the heartbeat is never 'error': at the end of the run the last
\* call is heartbeat_success and the status is 'active'.
SuccessfulRun ==
    /\ local.heartbeat_id
    /\ local.items > 0
    /\ pc \in {"success", "except", "finally", "returned", "raised"}
    /\ local.exc \notin {"Exception", "OSError", "ValueError"}

HeartbeatStatus == IF local.heartbeat = <<>> THEN "" ELSE local.heartbeat[Len(local.heartbeat)]

LastCall == IF local.calls = <<>> THEN "" ELSE local.calls[Len(local.calls)]

C26_SuccessfulRunStaysActive ==
    SuccessfulRun =>
        /\ HeartbeatStatus # "error"
        /\ LastCall # "heartbeat_error"
        /\ pc = "returned" => (LastCall = "heartbeat_success" /\ HeartbeatStatus = "active")

\* what the code does instead: every run in which upsert returned ends with
\* a call of heartbeat_error and never with one of heartbeat_success
SuccessfulRunReportsError ==
    (SuccessfulRun /\ pc = "returned") => LastCall = "heartbeat_error"

\* C27: whatever is raised inside the try of main, the error is reported,
\* the final statistics are printed and main returns without raising.
C27_MainHandlesEveryFailure ==
    /\ pc # "raised"
    /\ (pc = "returned" /\ local.exc # "") =>
           local.printed = <<"Erro crítico", "ESTATÍSTICAS FINAIS">>

\* the failures that main does handle: those raised once scraper is bound
MainRaisesOnlyWithoutScraper ==
    /\ pc = "raised" => (~local.scraper /\ local.exc = "ValueError")
    /\ (pc = "returned" /\ local.exc # "") =>
           local.printed = <<"Erro crítico", "ESTATÍSTICAS FINAIS">>

\* C28: upsert accounts for every item: the batches are the consecutive
\* slices of at most 500 items in input order, each posted once; a batch that
\* fails adds its size to 'errors' and the next batch is still sent; the
\* result has total = len(items), and inserted + errors = total when every
\* successful response returned one row per item; an empty list sends no
\* request and returns zero counts.
LastItemOf(k) == Min(k * batch_size, Len(local.items))

ConsecutiveBatches ==
    \A k \in 1..Len(local.posts) :
        /\ local.posts[k][1] = (k - 1) * batch_size + 1
        /\ local.posts[k][2] = LastItemOf(k)
        /\ local.posts[k][1] <= local.posts[k][2]

FailedSizes == {<<k, local.posts[k][2] - local.posts[k][1] + 1>> :
                    k \in {k \in 1..Len(local.posts) : ~Succeeded(local.posts[k][3])}}

RECURSIVE SumSizes(_)
SumSizes(pairs) ==
    IF pairs = {} THEN 0
    ELSE LET p == CHOOSE p \in pairs : TRUE IN p[2] + SumSizes(pairs \ {p})

OneRowPerItem == \A k \in 1..Len(local.posts) : local.posts[k][3] # "no rows"

C28_UpsertAccountsForEveryItem ==
    /\ pc = "batches" =>
          /\ ConsecutiveBatches
          /\ local.i = Len(local.posts) * batch_size
          /\ local.stats.errors = SumSizes(FailedSizes)
    /\ pc = "return" =>
          /\ ret.total = Len(call.arg)
          /\ ret.updated = 0
          /\ call.arg = <<>> => (local.posts = <<>> /\ ret.inserted = 0 /\ ret.errors = 0)
          /\ call.arg # <<>> =>
                /\ ConsecutiveBatches
                /\ local.posts[Len(local.posts)][2] = Len(call.arg)
                /\ ret.errors = SumSizes(FailedSizes)
                /\ OneRowPerItem => ret.inserted + ret.errors = ret.total

C28_Witness ==
    /\ pc = "return"
    /\ Len(local.posts) >= 2
    /\ OneRowPerItem
    /\ ret.errors > 1
    /\ ret.inserted > 1
    /\ ~Succeeded(local.posts[1][3])

\* C29: a batch whose request fails is sent again as a whole batch before
\* its items are counted as errors.
SameBatch(j, k) == local.posts[j][1] = local.posts[k][1] /\ local.posts[j][2] = local.posts[k][2]

FailedPosts == {k \in 1..Len(local.posts) : ~Succeeded(local.posts[k][3])}

FirstAttempt(k) == k = 1 \/ ~SameBatch(k - 1, k)

C29_FailedBatchSentAgain ==
    \A k \in FailedPosts :
        FirstAttempt(k) =>
            IF k < Len(local.posts)
            THEN SameBatch(k, k + 1)
            ELSE local.i + 1 = local.posts[k][1]

\* C29 as the code has it: a batch is never sent again.  The turn of the
\* loop in which the request fails counts the whole batch as errors and
\* moves on to the next batch; no request carries a part of a batch.
PostStep == pc = "batches" /\ Len(local'.posts) = Len(local.posts) + 1

PostedNow == local'.posts[Len(local'.posts)]

C29_FailedBatchCountedAtOnce ==
    [][PostStep =>
          /\ PostedNow[1] = local.i + 1
          /\ PostedNow[2] = Min(local.i + batch_size, Len(local.items))
          /\ \A k \in 1..Len(local.posts) : local.posts[k][1] # PostedNow[1]
          /\ local'.i = local.i + batch_size
          /\ ~Succeeded(PostedNow[3]) =>
                /\ local'.stats.errors = local.stats.errors + (PostedNow[2] - PostedNow[1] + 1)
                /\ local'.stats.inserted = local.stats.inserted]_vars

C29_Witness ==
    /\ Len(local.posts) >= 2
    /\ ~Succeeded(local.posts[1][3])
    /\ local.posts[1] = <<1, batch_size, "timeout">>
    /\ local.posts[2][1] = batch_size + 1
    /\ local.stats.errors >= batch_size

\* C30: validate_batch flags a lot with needs_update if and only if its check
\* returned 'encerrado'; a lot whose check returned 'ativo' or 'erro', or
\* raised, is not flagged and is not among the lots main deactivates; at the
\* return checked is the number of lots and encerrados the number of flagged
\* lots.
FlaggedLots == {k \in 1..Len(local.lots) : local.lots[k].needs_update}

ClosedLots == {k \in 1..Len(local.lots) : local.returned[k] = "encerrado"}

C30_OnlyClosedLotsDeactivated ==
    /\ FlaggedLots \subseteq ClosedLots
    /\ pc = "batch" => \A k \in ClosedLots : k <= local.i => k \in FlaggedLots
    /\ pc = "return" =>
          /\ FlaggedLots = ClosedLots
          /\ ret.checked = Len(call.arg)
          /\ ret.encerrados = Cardinality(FlaggedLots)
    /\ pc = "update" => local.lots_to_update = ClosedLots
    /\ \A k \in 1..Len(local.lots) :
          local.lots[k].link = call.arg[k].link /\ local.lots[k].ids = call.arg[k].ids

C30_Witness ==
    /\ pc = "update"
    /\ Len(local.lots) > validate_batch_size
    /\ local.lots_to_update # {}
    /\ \E j, k, m \in 1..Len(local.lots) :
          /\ local.returned[j] = "erro" /\ local.lots[j].link
          /\ local.returned[k] = "raised"
          /\ local.returned[m] = "ativo"
    /\ \E k \in local.lots_to_update : k > validate_batch_size
====
